---- MODULE Spec2Model ----
\* Model of the openclaw-server provisioning core (UserManager, SecretsManager,
\* DockerManager, runtime config generator) and of the shared-collections
\* daemon lifecycle helper (PID file handling).
EXTENDS Integers, Sequences, FiniteSets, TLC

\* ---------------------------------------------------------------------------
\* Configuration (clawctl.toml as loaded)
\* ---------------------------------------------------------------------------

Users == {"alice", "bob"}

GATEWAY_TOKEN_SECRET_NAME == "openclaw_gateway_token"

\* The empty partial function (an empty directory listing).
EmptyFn == [x \in {} |-> x]

\* Optional values (Python's `str | None`).
NoneV == [some |-> FALSE, val |-> <<>>]

Some(v) == [some |-> TRUE, val |-> v]

\* Python truthiness of an optional string: None and "" are falsy.
Truthy(o) == o.some /\ o.val # <<>>

\* Secret values are strings, kept as sequences of one-character strings.
IsSpace(c) == c \in {" ", "\n"}

RECURSIVE LStrip(_)
LStrip(s) == IF s # <<>> /\ IsSpace(Head(s)) THEN LStrip(Tail(s)) ELSE s

RECURSIVE RStrip(_)
RStrip(s) ==
    IF s # <<>> /\ IsSpace(s[Len(s)]) THEN RStrip(SubSeq(s, 1, Len(s) - 1)) ELSE s

\* str.strip()
Strip(s) == RStrip(LStrip(s))

\* Model identifiers are strings split at "/" : "openrouter/z-ai/glm" is
\* <<"openrouter", "z-ai", "glm">>.
DefaultModel == <<"openrouter", "glm">>

\* Per-user records of the configuration file (everything but agent.model,
\* which the web model update rewrites and is therefore state).
UserCfg(u) ==
    IF u = "alice"
    THEN [slack |-> TRUE, bot_token_secret |-> "slack_bot_token",
          app_token_secret |-> "slack_app_token", discord |-> FALSE,
          gog_enabled |-> TRUE, gog_email |-> Some(<<"a", "@">>),
          workspace_template |-> TRUE]
    ELSE [slack |-> FALSE, bot_token_secret |-> "slack_bot_token",
          app_token_secret |-> "slack_app_token", discord |-> TRUE,
          gog_enabled |-> FALSE, gog_email |-> NoneV,
          workspace_template |-> FALSE]

\* The workspace template directory: relative path -> content.
TemplateFiles ==
    [p \in {"IDENTITY.md", "new.md"} |->
        IF p = "IDENTITY.md" THEN "template version" ELSE "new content"]

\* Workspace files the user edits.
EditedPaths == {"IDENTITY.md"}

\* secrets.token_urlsafe(32): a random token.
Tokens == {<<"t", "1">>, <<"t", "2">>}

\* Secret values supplied to provision_user, in dict order.
SecretInputs(u) ==
    IF u = "alice"
    THEN {<<>>,
          <<[name |-> "openrouter_api_key", value |-> <<"k">>],
            [name |-> "slack_bot_token", value |-> <<"b">>],
            [name |-> "slack_app_token", value |-> <<"a", " ">>]>>}
    ELSE {<<>>, <<[name |-> "openrouter_api_key", value |-> <<"k">>]>>}

\* Pairs of token values given to set-slack (option or prompt).
SlackTokenInputs ==
    {[bot |-> <<"b", "\n">>, app |-> <<"a">>], [bot |-> <<" ">>, app |-> <<"a">>]}

\* Models and provider hints requested through the web model update.
ModelInputs == {<<"anthropic", "claude">>, <<"gpt">>}

ProviderInputs == {NoneV, Some(<<"openrouter">>)}

UserSubdirs == {"openclaw", "workspace", "backup"}

\* Operations started in one behaviour.
MaxCalls == 2

\* ---------------------------------------------------------------------------
\* State
\* ---------------------------------------------------------------------------

VARIABLES
    dirs,         \* dirs[u]: existing directories of u (UserSubdirs, "secrets")
    files,        \* files[u]: files in users/<u>/openclaw, path -> content
    secretFiles,  \* secretFiles[u]: files in secrets/<u>, name -> value
    configFile,   \* configFile[u]: <<>> or <<content of openclaw.json>>
    container,    \* container[u]: "absent", "created", "running", "exited"
    network,      \* network[u]: the user's bridge network exists
    image,        \* the configured image is built
    cfgModel,     \* cfgModel[u]: users[u].agent.model in clawctl.toml
    call,         \* the operation in progress
    pc,           \* index of its next step, 0 when idle
    gwLocal,      \* its local variable gateway_token
    copied,       \* return value of the last copy_template
    trace,        \* the steps of the current (or last) operation that ran
    done,         \* outcome of the last completed operation
    doneObs,      \* observable state of done.user when it completed
    ncalls,       \* operations started so far
    pidFile,      \* <<>> or <<pid>>: .shared-collections-sync.pid
    procs,        \* procs[p]: process table slot of pid p
    dLast,        \* outcome of the last daemon lifecycle call
    rp,           \* the daemon process executing run_periodic
    rq,           \* a call of get_required_secrets: inputs and result
    ss,           \* one user's secrets directory and the last read of it
    bk,           \* one user's workspace and backup repository
    sy,           \* shared-collection sync and the batch operations
    gc,           \* a run of the runtime config generator and the file it writes
    dk,           \* the container engine: one user's container and network
    un,           \* a user name handed to UserConfig.validate_name
    wb,           \* a request to the web endpoint update_user_model
    cc,           \* two calls of UserManager in flight for one user
    sd,           \* two schedule_start commands in flight
    tr,           \* one collection: its source tree and its destination tree
    rb,           \* a call of DockerManager.rebuild_all and the containers it walks
    md            \* a user record and the defaults loaded from clawctl.toml

provVars == <<dirs, files, secretFiles, configFile, container, network, image,
              cfgModel, call, pc, gwLocal, copied, trace, done, doneObs,
              ncalls>>

daemonVars == <<pidFile, procs, dLast>>

\* State of the components that have a specification of their own.
extVars == <<rp, rq, ss, bk, sy, gc, dk, un, wb, cc, sd, tr, rb, md>>

vars == <<dirs, files, secretFiles, configFile, container, network, image,
          cfgModel, call, pc, gwLocal, copied, trace, done, doneObs, ncalls,
          pidFile, procs, dLast, extVars>>

NoCall == [op |-> "none", user |-> "none", sv |-> <<>>, keep |-> TRUE,
           model |-> <<>>, provider |-> NoneV]

NoDone == [op |-> "none", user |-> "none", sv |-> <<>>, keep |-> TRUE,
           status |-> "none", injected |-> FALSE, prev |-> "none",
           same |-> FALSE]

\* What an observer of user u sees: directories, secret files and values,
\* runtime config content, container existence and status.
Obs(u) == [dirs |-> dirs[u], files |-> files[u], secrets |-> secretFiles[u],
           config |-> configFile[u], container |-> container[u]]

\* Obs(u) in the next state.
ObsNext(u) ==
    [dirs |-> dirs'[u], files |-> files'[u], secrets |-> secretFiles'[u],
     config |-> configFile'[u], container |-> container'[u]]

NoObs == [dirs |-> {}, files |-> EmptyFn, secrets |-> EmptyFn,
          config |-> <<>>, container |-> "absent"]

\* ---------------------------------------------------------------------------
\* SecretsManager
\* ---------------------------------------------------------------------------

\* write_secret: mkdir + write_text(value) (overwrite).
write_secret(store, name, value) ==
    [n \in DOMAIN store \cup {name} |-> IF n = name THEN value ELSE store[n]]

\* read_secret: None if the file is missing or empty, else the stripped text.
read_secret(store, name) ==
    IF name \in DOMAIN store
    THEN IF store[name] # <<>> THEN Some(Strip(store[name])) ELSE NoneV
    ELSE NoneV

secret_exists(store, name) == name \in DOMAIN store

\* The first k entries of secret_values written in order.
RECURSIVE WriteSecrets(_, _, _)
WriteSecrets(store, sv, k) ==
    IF k = 0 THEN store
    ELSE write_secret(WriteSecrets(store, sv, k - 1), sv[k].name, sv[k].value)

\* ---------------------------------------------------------------------------
\* Runtime config generator
\* ---------------------------------------------------------------------------

RouteModel_always_prefix(model, provider) ==
    IF provider = Some(<<"openrouter">>) /\ Len(model) >= 2
    THEN <<"openrouter">> \o model ELSE model

\* Model routing of generate_openclaw_config.
RouteModel(model, provider) ==
    IF Len(model) >= 2 /\ Head(model) = "openrouter" THEN model
    ELSE IF provider = Some(<<"openrouter">>) /\ Len(model) >= 2
         THEN <<"openrouter">> \o model
         ELSE model

\* The gateway block: auth and controlUi only for a truthy token.
gateway_block(gateway_token) ==
    IF Truthy(gateway_token)
    THEN [mode |-> "local", port |-> 18789, bind |-> "lan",
          auth |-> [mode |-> "token", token |-> gateway_token.val],
          controlUi |-> [allowInsecureAuth |-> TRUE]]
    ELSE [mode |-> "local", port |-> 18789, bind |-> "lan"]

channel_stanzas_always(user) ==
    [c \in {"slack", "discord"} |->
        IF c = "slack" THEN [enabled |-> TRUE, mode |-> "socket"]
        ELSE [enabled |-> TRUE]]

\* config["channels"]: a stanza per enabled channel.
channel_stanzas(user) ==
    [c \in {x \in {"slack", "discord"} :
               (x = "slack" /\ user.slack) \/ (x = "discord" /\ user.discord)} |->
        IF c = "slack" THEN [enabled |-> TRUE, mode |-> "socket"]
        ELSE [enabled |-> TRUE]]

gmail_hooks_any_email(user) ==
    IF user.gog_email.some
    THEN [h \in {"gmail"} |-> [account |-> user.gog_email.val]]
    ELSE EmptyFn

\* config["hooks"]: set only when gog is enabled and has a truthy email.
gmail_hooks(user) ==
    IF user.gog_enabled /\ Truthy(user.gog_email)
    THEN [h \in {"gmail"} |-> [account |-> user.gog_email.val]]
    ELSE EmptyFn

\* The dict generate_openclaw_config returns; "hooks" is a key of it only
\* when a hook is set. `model` is user.agent.model.
\* model = user.agent.model or defaults.model
effective_model(user_model, defaults_model) ==
    IF user_model # <<>> THEN user_model ELSE defaults_model

config_document(user, model, gateway_token, provider) ==
    [primary |-> RouteModel(effective_model(model, DefaultModel), provider),
     gateway |-> gateway_block(gateway_token),
     channels |-> channel_stanzas(user),
     hooks |-> gmail_hooks(user)]

\* generate_openclaw_config for the configured user u, reduced to what the
\* provisioning core compares.
generate_openclaw_config(u, model, gateway_token, provider) ==
    LET d == config_document(UserCfg(u), model, gateway_token, provider)
    IN [primary |-> d.primary,
        auth |-> IF "auth" \in DOMAIN d.gateway
                 THEN Some(d.gateway.auth.token) ELSE NoneV,
        slack |-> "slack" \in DOMAIN d.channels,
        discord |-> "discord" \in DOMAIN d.channels,
        gmail |-> IF "gmail" \in DOMAIN d.hooks
                  THEN Some(d.hooks["gmail"].account) ELSE NoneV]

write_text_append(before, content) == before \o content

\* path.write_text(content): the file holds the new content only.
write_text(before, content) == content

\* write_openclaw_config: json.dumps(config, indent=2) + "\n", overwriting.
write_openclaw_config(u, model, gateway_token, provider) ==
    <<[doc |-> generate_openclaw_config(u, model, gateway_token, provider),
       newline |-> TRUE]>>

\* ---------------------------------------------------------------------------
\* Workspace template
\* ---------------------------------------------------------------------------

copy_template_overwrite(template, dest) ==
    [dest |-> [p \in DOMAIN dest \cup DOMAIN template |->
                  IF p \in DOMAIN template THEN template[p] ELSE dest[p]],
     copied |-> DOMAIN template]

\* copy_template: copy every template file whose destination does not exist.
copy_template(template, dest) ==
    [dest |-> [p \in DOMAIN dest \cup DOMAIN template |->
                  IF p \in DOMAIN dest THEN dest[p] ELSE template[p]],
     copied |-> DOMAIN template \ DOMAIN dest]

\* ---------------------------------------------------------------------------
\* Operations as sequences of steps
\* ---------------------------------------------------------------------------

ProvisionStepsContainerFirst ==
    <<"dirs", "template", "create", "start", "secrets", "ensure_token",
      "config", "image">>

\* provision_user: the order of its statements.
ProvisionSteps ==
    <<"dirs", "template", "secrets", "ensure_token", "config", "image",
      "create", "start">>

RemoveStepsDataFirst(keep_data) ==
    IF keep_data THEN <<"rm_container", "rm_network">>
    ELSE <<"rm_data", "rm_secrets", "rm_container", "rm_network">>

\* remove_user: the order of its statements.
RemoveSteps(keep_data) ==
    IF keep_data THEN <<"rm_container", "rm_network">>
    ELSE <<"rm_container", "rm_network", "rm_data", "rm_secrets">>

\* config regenerate (CLI)
RegenerateSteps == <<"regen_token", "config">>

\* user set-slack (CLI)
SetSlackSteps == <<"slack_secrets", "regen_token", "config", "restart">>

\* PATCH /users/{username}/model (web)
ModelUpdateSteps ==
    <<"mu_validate", "mu_toml", "regen_token", "mu_write", "mu_restart">>

Steps(c) ==
    CASE c.op = "provision" -> ProvisionSteps
      [] c.op = "remove" -> RemoveSteps(c.keep)
      [] c.op = "regenerate" -> RegenerateSteps
      [] c.op = "set_slack" -> SetSlackSteps
      [] c.op = "model_update" -> ModelUpdateSteps
      [] OTHER -> <<>>

Cur == IF pc = 0 THEN "idle" ELSE Steps(call)[pc]

SameCall(d, c) ==
    d.op = c.op /\ d.user = c.user /\ d.sv = c.sv /\ d.keep = c.keep

\* The operation returns (status "ok") or raises (status "error").
Finish(status, injected) ==
    /\ call' = NoCall
    /\ pc' = 0
    /\ gwLocal' = NoneV
    /\ done' = [op |-> call.op, user |-> call.user, sv |-> call.sv,
                keep |-> call.keep, status |-> status, injected |-> injected,
                prev |-> IF ~SameCall(done, call) THEN "other"
                         ELSE IF done.status = "ok" THEN "same_ok"
                         ELSE IF done.injected THEN "same_injected"
                         ELSE "same_error",
                same |-> (ObsNext(call.user) = doneObs)]
    /\ doneObs' = ObsNext(call.user)

\* The current step succeeded, leaving gateway_token = g: go on to the next
\* statement, or return.
AdvanceWith(g) ==
    IF pc = Len(Steps(call))
    THEN Finish("ok", FALSE)
    ELSE /\ pc' = pc + 1
         /\ gwLocal' = g
         /\ UNCHANGED <<call, done, doneObs>>

Advance == AdvanceWith(gwLocal)

Begin(c) ==
    /\ pc = 0
    /\ ncalls < MaxCalls
    /\ ncalls' = ncalls + 1
    /\ call' = c
    /\ pc' = 1
    /\ trace' = <<>>
    /\ gwLocal' = NoneV
    /\ UNCHANGED <<dirs, files, secretFiles, configFile, container, network,
                   image, cfgModel, copied, done, doneObs>>

\* ---------------------------------------------------------------------------
\* provision_user
\* ---------------------------------------------------------------------------

BeginProvision(u, sv) ==
    /\ Begin([NoCall EXCEPT !.op = "provision", !.user = u, !.sv = sv])
    /\ UNCHANGED <<daemonVars, extVars>>

\* 1. paths.ensure_user_dirs(user.name)
StepDirs ==
    /\ Cur = "dirs"
    /\ dirs' = [dirs EXCEPT ![call.user] = @ \cup UserSubdirs \cup {"secrets"}]
    /\ trace' = Append(trace, "dirs")
    /\ UNCHANGED <<files, secretFiles, configFile, container, network, image,
                   cfgModel, copied>>
    /\ Advance
    /\ UNCHANGED <<ncalls, pidFile, procs, dLast, extVars>>

\* 2. copy_template, when a template is configured
StepTemplate ==
    /\ Cur = "template"
    /\ IF UserCfg(call.user).workspace_template
       THEN /\ files' = [files EXCEPT ![call.user] =
                            copy_template(TemplateFiles, @).dest]
            /\ copied' = copy_template(TemplateFiles, files[call.user]).copied
       ELSE UNCHANGED <<files, copied>>
    /\ trace' = Append(trace, "template")
    /\ UNCHANGED <<dirs, secretFiles, configFile, container, network, image,
                   cfgModel>>
    /\ Advance
    /\ UNCHANGED <<ncalls, pidFile, procs, dLast, extVars>>

\* 3. write_secret for every supplied value
StepSecrets ==
    /\ Cur = "secrets"
    /\ secretFiles' = [secretFiles EXCEPT ![call.user] =
                          WriteSecrets(@, call.sv, Len(call.sv))]
    /\ dirs' = [dirs EXCEPT ![call.user] =
                   IF call.sv # <<>> THEN @ \cup {"secrets"} ELSE @]
    /\ trace' = Append(trace, "secrets")
    /\ UNCHANGED <<files, configFile, container, network, image, cfgModel,
                   copied>>
    /\ Advance
    /\ UNCHANGED <<ncalls, pidFile, procs, dLast, extVars>>

\* if not self.secrets.secret_exists(user.name, GATEWAY_TOKEN_SECRET_NAME)
provision_needs_token_never(store) == FALSE

provision_needs_token(store) == ~secret_exists(store, GATEWAY_TOKEN_SECRET_NAME)

\* 4. generate the gateway token unless its file exists, then read it back
StepEnsureToken ==
    /\ Cur = "ensure_token"
    /\ IF ~provision_needs_token(secretFiles[call.user])
       THEN UNCHANGED <<secretFiles, dirs>>
       ELSE \E t \in Tokens :
              /\ secretFiles' = [secretFiles EXCEPT ![call.user] =
                                    write_secret(@, GATEWAY_TOKEN_SECRET_NAME, t)]
              /\ dirs' = [dirs EXCEPT ![call.user] = @ \cup {"secrets"}]
    /\ trace' = Append(trace, "ensure_token")
    /\ UNCHANGED <<files, configFile, container, network, image, cfgModel,
                   copied>>
    /\ AdvanceWith(read_secret(secretFiles'[call.user], GATEWAY_TOKEN_SECRET_NAME))
    /\ UNCHANGED <<ncalls, pidFile, procs, dLast, extVars>>

\* 5. write_openclaw_config(user, defaults, path, gateway_token=gateway_token)
StepConfig ==
    /\ Cur = "config"
    /\ configFile' = [configFile EXCEPT ![call.user] =
                         write_openclaw_config(call.user, cfgModel[call.user],
                                               gwLocal, NoneV)]
    /\ dirs' = [dirs EXCEPT ![call.user] = @ \cup {"openclaw"}]
    /\ trace' = Append(trace, "config")
    /\ UNCHANGED <<files, secretFiles, container, network, image, cfgModel,
                   copied>>
    /\ Advance
    /\ UNCHANGED <<ncalls, pidFile, procs, dLast, extVars>>

\* 6a. if not image_exists(): build_image()
StepImage ==
    /\ Cur = "image"
    /\ image' = TRUE
    /\ trace' = Append(trace, "image")
    /\ UNCHANGED <<dirs, files, secretFiles, configFile, container, network,
                   cfgModel, copied>>
    /\ Advance
    /\ UNCHANGED <<ncalls, pidFile, procs, dLast, extVars>>

\* 6b. create_container: create_network (guarded by a lookup), mkdir of the
\* mounted directories, then client.containers.create, which the engine
\* refuses (409 Conflict) when a container of that name exists.
StepCreate ==
    /\ Cur = "create"
    /\ network' = [network EXCEPT ![call.user] = TRUE]
    /\ dirs' = [dirs EXCEPT ![call.user] = @ \cup {"openclaw", "workspace"}]
    /\ trace' = Append(trace, "create")
    /\ UNCHANGED <<files, secretFiles, configFile, image, cfgModel, copied>>
    /\ IF container[call.user] = "absent"
       THEN /\ container' = [container EXCEPT ![call.user] = "created"]
            /\ Advance
       ELSE /\ UNCHANGED container
            /\ Finish("error", FALSE)
    /\ UNCHANGED <<ncalls, pidFile, procs, dLast, extVars>>

\* 6c. start_container: containers.get(name).start()
StepStart ==
    /\ Cur = "start"
    /\ trace' = Append(trace, "start")
    /\ UNCHANGED <<dirs, files, secretFiles, configFile, network, image,
                   cfgModel, copied>>
    /\ IF container[call.user] = "absent"
       THEN /\ UNCHANGED container
            /\ Finish("error", FALSE)
       ELSE /\ container' = [container EXCEPT ![call.user] = "running"]
            /\ Advance
    /\ UNCHANGED <<ncalls, pidFile, procs, dLast, extVars>>

\* ---------------------------------------------------------------------------
\* remove_user
\* ---------------------------------------------------------------------------

BeginRemove(u, keep_data) ==
    /\ Begin([NoCall EXCEPT !.op = "remove", !.user = u, !.keep = keep_data])
    /\ UNCHANGED <<daemonVars, extVars>>

\* remove_container: stop and remove; NotFound is swallowed.
remove_container(c) == [status |-> "absent", raised |-> FALSE]

remove_network_raising(n) == [exists |-> FALSE, raised |-> ~n]

\* remove_network: remove the network; NotFound is swallowed.
remove_network(n) == [exists |-> FALSE, raised |-> FALSE]

StepRmContainer ==
    /\ Cur = "rm_container"
    /\ container' = [container EXCEPT ![call.user] = remove_container(@).status]
    /\ trace' = Append(trace, "rm_container")
    /\ UNCHANGED <<dirs, files, secretFiles, configFile, network, image,
                   cfgModel, copied>>
    /\ IF remove_container(container[call.user]).raised
       THEN Finish("error", FALSE)
       ELSE Advance
    /\ UNCHANGED <<ncalls, pidFile, procs, dLast, extVars>>

StepRmNetwork ==
    /\ Cur = "rm_network"
    /\ network' = [network EXCEPT ![call.user] = remove_network(@).exists]
    /\ trace' = Append(trace, "rm_network")
    /\ UNCHANGED <<dirs, files, secretFiles, configFile, container, image,
                   cfgModel, copied>>
    /\ IF remove_network(network[call.user]).raised
       THEN Finish("error", FALSE)
       ELSE Advance
    /\ UNCHANGED <<ncalls, pidFile, procs, dLast, extVars>>

\* if user_dir.is_dir(): shutil.rmtree(user_dir)
StepRmData ==
    /\ Cur = "rm_data"
    /\ dirs' = [dirs EXCEPT ![call.user] = @ \ UserSubdirs]
    /\ files' = [files EXCEPT ![call.user] = EmptyFn]
    /\ configFile' = [configFile EXCEPT ![call.user] = <<>>]
    /\ trace' = Append(trace, "rm_data")
    /\ UNCHANGED <<secretFiles, container, network, image, cfgModel, copied>>
    /\ Advance
    /\ UNCHANGED <<ncalls, pidFile, procs, dLast, extVars>>

remove_user_secrets_keep_files(store) == store

\* remove_user_secrets: rmtree of the user's secrets directory, if it exists.
remove_user_secrets(store) == EmptyFn

StepRmSecrets ==
    /\ Cur = "rm_secrets"
    /\ secretFiles' = [secretFiles EXCEPT ![call.user] = remove_user_secrets(@)]
    /\ dirs' = [dirs EXCEPT ![call.user] = @ \ {"secrets"}]
    /\ trace' = Append(trace, "rm_secrets")
    /\ UNCHANGED <<files, configFile, container, network, image, cfgModel,
                   copied>>
    /\ Advance
    /\ UNCHANGED <<ncalls, pidFile, procs, dLast, extVars>>

\* ---------------------------------------------------------------------------
\* config regenerate, user set-slack, web model update
\* ---------------------------------------------------------------------------

BeginRegenerate(u) ==
    /\ Begin([NoCall EXCEPT !.op = "regenerate", !.user = u])
    /\ UNCHANGED <<daemonVars, extVars>>

regen_needs_token_always(tok) == TRUE

\* gateway_token = read_secret(...); if not gateway_token: generate and write
regen_needs_token(tok) == ~Truthy(tok)

StepRegenToken ==
    /\ Cur = "regen_token"
    /\ trace' = Append(trace, "regen_token")
    /\ UNCHANGED <<files, configFile, container, network, image, cfgModel,
                   copied>>
    /\ LET tok == read_secret(secretFiles[call.user], GATEWAY_TOKEN_SECRET_NAME)
       IN IF regen_needs_token(tok)
          THEN \E t \in Tokens :
                 /\ secretFiles' = [secretFiles EXCEPT ![call.user] =
                                       write_secret(@, GATEWAY_TOKEN_SECRET_NAME, t)]
                 /\ dirs' = [dirs EXCEPT ![call.user] = @ \cup {"secrets"}]
                 /\ AdvanceWith(Some(t))
          ELSE /\ UNCHANGED <<secretFiles, dirs>>
               /\ AdvanceWith(tok)
    /\ UNCHANGED <<ncalls, pidFile, procs, dLast, extVars>>

BeginSetSlack(u, bot_token, app_token) ==
    /\ Begin([NoCall EXCEPT
                !.op = "set_slack", !.user = u,
                !.sv = <<[name |-> UserCfg(u).bot_token_secret, value |-> bot_token],
                         [name |-> UserCfg(u).app_token_secret, value |-> app_token]>>])
    /\ UNCHANGED <<daemonVars, extVars>>

\* The checks of user_set_slack, then the two write_secret calls.
StepSlackSecrets ==
    /\ Cur = "slack_secrets"
    /\ trace' = Append(trace, "slack_secrets")
    /\ UNCHANGED <<files, configFile, container, network, image, cfgModel,
                   copied>>
    /\ IF \/ ~UserCfg(call.user).slack
          \/ Strip(call.sv[1].value) = <<>>
          \/ Strip(call.sv[2].value) = <<>>
       THEN /\ UNCHANGED <<secretFiles, dirs>>
            /\ Finish("error", FALSE)
       ELSE /\ secretFiles' = [secretFiles EXCEPT ![call.user] =
                write_secret(write_secret(@, call.sv[1].name, Strip(call.sv[1].value)),
                             call.sv[2].name, Strip(call.sv[2].value))]
            /\ dirs' = [dirs EXCEPT ![call.user] = @ \cup {"secrets"}]
            /\ Advance
    /\ UNCHANGED <<ncalls, pidFile, procs, dLast, extVars>>

\* if container_exists(name): restart_container(name)
StepRestart ==
    /\ Cur \in {"restart", "mu_restart"}
    /\ container' = [container EXCEPT ![call.user] =
                        IF @ = "absent" THEN @ ELSE "running"]
    /\ trace' = Append(trace, Cur)
    /\ UNCHANGED <<dirs, files, secretFiles, configFile, network, image,
                   cfgModel, copied>>
    /\ Advance
    /\ UNCHANGED <<ncalls, pidFile, procs, dLast, extVars>>

BeginModelUpdate(u, model, provider) ==
    /\ Begin([NoCall EXCEPT !.op = "model_update", !.user = u,
                            !.model = model, !.provider = provider])
    /\ UNCHANGED <<daemonVars, extVars>>

\* The request checks: a model with a "/" needs the openrouter_api_key
\* secret, and must be in the cached model list when that list is available.
StepMuValidate ==
    /\ Cur = "mu_validate"
    /\ trace' = Append(trace, "mu_validate")
    /\ UNCHANGED <<dirs, files, secretFiles, configFile, container, network,
                   image, cfgModel, copied>>
    /\ \E in_cache \in BOOLEAN :
         IF Len(call.model) >= 2
            /\ (~Truthy(read_secret(secretFiles[call.user], "openrouter_api_key"))
                \/ ~in_cache)
         THEN Finish("error", FALSE)
         ELSE Advance
    /\ UNCHANGED <<ncalls, pidFile, procs, dLast, extVars>>

\* config_writer.update_user_model: users[u].agent.model = model
StepMuToml ==
    /\ Cur = "mu_toml"
    /\ cfgModel' = [cfgModel EXCEPT ![call.user] = call.model]
    /\ trace' = Append(trace, "mu_toml")
    /\ UNCHANGED <<dirs, files, secretFiles, configFile, container, network,
                   image, copied>>
    /\ Advance
    /\ UNCHANGED <<ncalls, pidFile, procs, dLast, extVars>>

\* The provider the endpoint passes to generate_openclaw_config.
InferProvider(model, provider) ==
    IF Truthy(provider) THEN provider
    ELSE IF Len(model) >= 2 /\ Head(model) = "anthropic" THEN Some(<<"anthropic">>)
    ELSE IF Len(model) >= 2 THEN Some(<<"openrouter">>)
    ELSE NoneV

\* The document is written by an exec inside the container (json.dumps
\* without the trailing newline): 404 without a container, and the exec
\* raises when the container is not running.
StepMuWrite ==
    /\ Cur = "mu_write"
    /\ trace' = Append(trace, "mu_write")
    /\ UNCHANGED <<dirs, files, secretFiles, container, network, image,
                   cfgModel, copied>>
    /\ IF container[call.user] = "running"
       THEN /\ configFile' = [configFile EXCEPT ![call.user] =
                <<[doc |-> generate_openclaw_config(
                             call.user, cfgModel[call.user], gwLocal,
                             InferProvider(call.model, call.provider)),
                   newline |-> FALSE]>>]
            /\ Advance
       ELSE /\ UNCHANGED configFile
            /\ Finish("error", FALSE)
    /\ UNCHANGED <<ncalls, pidFile, procs, dLast, extVars>>

\* ---------------------------------------------------------------------------
\* Failures of the environment (I/O errors, container engine errors)
\* ---------------------------------------------------------------------------

\* The current step raises; what it had already done stays done.
Fail ==
    /\ pc > 0
    /\ Cur # "mu_validate"
    /\ Cur = "secrets" => call.sv # <<>>
    /\ Cur = "template" => UserCfg(call.user).workspace_template
    /\ Cur = "image" => ~image
    /\ Cur = "rm_data" => dirs[call.user] \cap UserSubdirs # {}
    /\ Cur = "rm_secrets" => "secrets" \in dirs[call.user]
    /\ Cur \in {"restart", "mu_restart", "rm_container"} =>
           container[call.user] # "absent"
    /\ Cur = "rm_network" => network[call.user]
    /\ IF Cur = "secrets"
       THEN \E k \in 0..(Len(call.sv) - 1) :
              /\ secretFiles' = [secretFiles EXCEPT ![call.user] =
                                    WriteSecrets(@, call.sv, k)]
              /\ dirs' = [dirs EXCEPT ![call.user] = @ \cup {"secrets"}]
       ELSE IF Cur = "slack_secrets"
       THEN \E k \in 0..1 :
              /\ secretFiles' = [secretFiles EXCEPT ![call.user] =
                    IF k = 0 THEN @
                    ELSE write_secret(@, call.sv[1].name, Strip(call.sv[1].value))]
              /\ dirs' = [dirs EXCEPT ![call.user] = @ \cup {"secrets"}]
       ELSE UNCHANGED <<secretFiles, dirs>>
    /\ IF Cur = "create"
       THEN \E n \in {network[call.user], TRUE} :
              network' = [network EXCEPT ![call.user] = n]
       ELSE UNCHANGED network
    /\ IF Cur = "rm_container"
       THEN \E c \in {container[call.user], "exited"} :
              container' = [container EXCEPT ![call.user] = c]
       ELSE UNCHANGED container
    /\ IF Cur = "rm_data"
       THEN \E partial \in BOOLEAN :
              /\ files' = [files EXCEPT ![call.user] =
                              IF partial THEN EmptyFn ELSE @]
              /\ configFile' = [configFile EXCEPT ![call.user] =
                                   IF partial THEN <<>> ELSE @]
       ELSE UNCHANGED <<files, configFile>>
    /\ UNCHANGED <<image, cfgModel, copied, trace>>
    /\ Finish("error", TRUE)
    /\ UNCHANGED <<ncalls, pidFile, procs, dLast, extVars>>

\* The user (or the agent in the container) edits a workspace file.
UserEdit(u, p) ==
    /\ pc = 0
    /\ "openclaw" \in dirs[u]
    /\ UserCfg(u).workspace_template
    /\ files' = [files EXCEPT ![u] =
                    [q \in DOMAIN @ \cup {p} |->
                        IF q = p THEN "user version" ELSE @[q]]]
    /\ done' = NoDone
    /\ doneObs' = NoObs
    /\ UNCHANGED <<dirs, secretFiles, configFile, container, network, image,
                   cfgModel, call, pc, gwLocal, copied, trace>>
    /\ UNCHANGED <<ncalls, pidFile, procs, dLast, extVars>>

\* ---------------------------------------------------------------------------
\* Shared-collections sync daemon: PID file lifecycle
\* ---------------------------------------------------------------------------

\* OS users that run clawctl or own processes on the host.
OSUsers == {"root", "deploy"}

\* Process ids the host hands out.
MaxPid == 2

Pids == 1 .. MaxPid

\* A slot of the process table: no process, or a live process with its owner
\* and whether SIGTERM has been delivered to it (run_periodic then leaves its
\* loop at the next poll).
Dead == [alive |-> FALSE, owner |-> "none", term |-> FALSE]

Live(o) == [alive |-> TRUE, owner |-> o, term |-> FALSE]

\* os.kill(pid, sig) called by OS user `caller`: the errno outcome.
os_kill(table, pid, caller) ==
    IF ~table[pid].alive THEN "ProcessLookupError"
    ELSE IF caller = "root" \/ table[pid].owner = caller THEN "ok"
         ELSE "PermissionError"

NoDLast == [op |-> "none", caller |-> "none", ret |-> FALSE, raised |-> "none",
            hadFile |-> FALSE, pid |-> 0, existed |-> FALSE]

\* Outcome record of a lifecycle call: the ghost fields hadFile, pid and
\* existed describe the PID file and the process it names when the call began.
DLast(op, caller, ret, raised) ==
    [op |-> op, caller |-> caller, ret |-> ret, raised |-> raised,
     hadFile |-> pidFile # <<>>,
     pid |-> IF pidFile # <<>> THEN pidFile[1] ELSE 0,
     existed |-> pidFile # <<>> /\ procs[pidFile[1]].alive]

is_daemon_running_keep_file(pf, table, caller) ==
    IF pf = <<>> THEN [ret |-> FALSE, pidFile |-> pf]
    ELSE IF os_kill(table, pf[1], caller) = "ok"
         THEN [ret |-> TRUE, pidFile |-> pf]
         ELSE [ret |-> FALSE, pidFile |-> pf]

\* is_daemon_running: return value and the PID file it leaves.
is_daemon_running(pf, table, caller) ==
    IF pf = <<>> THEN [ret |-> FALSE, pidFile |-> pf]
    ELSE IF os_kill(table, pf[1], caller) = "ok"
         THEN [ret |-> TRUE, pidFile |-> pf]
         ELSE [ret |-> FALSE, pidFile |-> <<>>]

IsDaemonRunning(caller) ==
    LET r == is_daemon_running(pidFile, procs, caller) IN
    /\ pidFile' = r.pidFile
    /\ dLast' = DLast("is_running", caller, r.ret, "none")
    /\ UNCHANGED procs
    /\ UNCHANGED <<provVars, extVars>>

\* start_daemon: refuses when is_daemon_running(), else spawns a detached
\* process (owned by the caller) and records its pid.
StartDaemon(caller) ==
    LET r == is_daemon_running(pidFile, procs, caller) IN
    IF r.ret
    THEN /\ pidFile' = r.pidFile
         /\ dLast' = DLast("start", caller, FALSE, "RuntimeError")
         /\ UNCHANGED procs
         /\ UNCHANGED <<provVars, extVars>>
    ELSE \E p \in Pids :
            /\ ~procs[p].alive
            /\ procs' = [procs EXCEPT ![p] = Live(caller)]
            /\ pidFile' = <<p>>
            /\ dLast' = DLast("start", caller, TRUE, "none")
            /\ UNCHANGED <<provVars, extVars>>

\* stop_daemon: SIGTERM to the recorded pid, ProcessLookupError tolerated,
\* then the PID file is removed; any other error of os.kill propagates.
StopDaemon(caller) ==
    /\ IF pidFile = <<>>
       THEN /\ dLast' = DLast("stop", caller, FALSE, "none")
            /\ UNCHANGED <<pidFile, procs>>
       ELSE LET k == os_kill(procs, pidFile[1], caller) IN
            IF k = "PermissionError"
            THEN /\ dLast' = DLast("stop", caller, FALSE, "PermissionError")
                 /\ UNCHANGED <<pidFile, procs>>
            ELSE /\ procs' = IF k = "ok"
                             THEN [procs EXCEPT ![pidFile[1]].term = TRUE]
                             ELSE procs
                 /\ pidFile' = <<>>
                 /\ dLast' = DLast("stop", caller, TRUE, "none")
    /\ UNCHANGED <<provVars, extVars>>

\* A daemon process ends: it leaves run_periodic after SIGTERM, or it dies.
ProcExit(p) ==
    /\ procs[p].alive
    /\ procs' = [procs EXCEPT ![p] = Dead]
    /\ UNCHANGED <<pidFile, dLast>>
    /\ UNCHANGED <<provVars, extVars>>

InitDaemon ==
    /\ pidFile = <<>>
    /\ procs = [p \in Pids |-> Dead]
    /\ dLast = NoDLast

\* ---------------------------------------------------------------------------
\* Shared-collections sync daemon: run_periodic
\* ---------------------------------------------------------------------------

\* sync_schedule values of the configuration.
Schedules == {"daily", "hourly", "02:30", "bogus"}

\* Sync passes one daemon run performs.
MaxPasses == 2

\* The job the schedule string registers: everything that is neither
\* "hourly" nor a valid "HH:MM" runs daily at 02:00.
schedule_job(schedule_str) ==
    IF schedule_str = "hourly" THEN "every_hour"
    ELSE IF schedule_str = "daily" THEN "daily_0200"
    ELSE IF schedule_str = "02:30" THEN "daily_0230"
    ELSE "daily_0200"

handle_signal_ignored(running) == running

\* handle_signal: running = False
handle_signal(running) == FALSE

\* schedule.run_pending(): the job runs when it is due.
run_pending(due) == due

\* rp.pc: "entry", "first_sync", "schedule", "check", "pending", "pass",
\* "sleep", "exited" (returned) or "killed" (default signal disposition).
\* rp.passes counts the passes begun, rp.signalled, rp.sleepsAfter and
\* rp.passesAfter record what happened since the first signal.
RpInitWith(configured, schedule_str) ==
    rp = [pc |-> "entry", configured |-> configured, schedule |-> schedule_str,
          handlers |-> FALSE, running |-> FALSE, job |-> "none", due |-> FALSE,
          passes |-> 0, signalled |-> FALSE, signal |-> "none",
          sleepsAfter |-> 0, passesAfter |-> 0]

\* The daemon processes a behaviour may follow.
InitRp == \E c \in BOOLEAN : \E sch \in Schedules : RpInitWith(c, sch)

\* No daemon process is followed.
IdleRp == RpInitWith(FALSE, "daily")

RpFrame == UNCHANGED <<provVars, daemonVars, rq, ss, bk, sy, gc, dk, un, wb, cc, sd, tr, rb, md>>

\* if not self.shared_config: return; running = True; signal.signal(...)
RpEntry ==
    /\ rp.pc = "entry"
    /\ rp' = IF rp.configured
             THEN [rp EXCEPT !.pc = "first_sync", !.running = TRUE,
                             !.handlers = TRUE]
             ELSE [rp EXCEPT !.pc = "exited"]
    /\ RpFrame

\* self.sync_all() on start: the pass begins.
RpFirstSync ==
    /\ rp.pc = "first_sync"
    /\ rp' = [rp EXCEPT !.pc = "first_pass", !.passes = @ + 1,
                        !.passesAfter = IF rp.signalled THEN @ + 1 ELSE @]
    /\ RpFrame

\* A pass (sync_all) returns.
RpPassEnd ==
    /\ rp.pc \in {"first_pass", "pass"}
    /\ rp' = [rp EXCEPT !.pc = IF rp.pc = "first_pass" THEN "schedule" ELSE "sleep"]
    /\ RpFrame

\* schedule.every()....do(self.sync_all)
RpSchedule ==
    /\ rp.pc = "schedule"
    /\ rp' = [rp EXCEPT !.pc = "check", !.job = schedule_job(rp.schedule)]
    /\ RpFrame

\* while running:
RpCheck ==
    /\ rp.pc = "check"
    /\ rp' = [rp EXCEPT !.pc = IF rp.running THEN "pending" ELSE "exited"]
    /\ RpFrame

\* schedule.run_pending()
RpRunPending ==
    /\ rp.pc = "pending"
    /\ rp' = IF run_pending(rp.due)
             THEN [rp EXCEPT !.pc = "pass", !.due = FALSE, !.passes = @ + 1,
                             !.passesAfter = IF rp.signalled THEN @ + 1 ELSE @]
             ELSE [rp EXCEPT !.pc = "sleep"]
    /\ RpFrame

\* time.sleep(60): a signal handler that returns does not cut it short.
RpSleep ==
    /\ rp.pc = "sleep"
    /\ rp' = [rp EXCEPT !.pc = "check",
                        !.sleepsAfter = IF rp.signalled THEN @ + 1 ELSE @]
    /\ RpFrame

\* SIGTERM or SIGINT is delivered to the process.
RpSignal(sig) ==
    /\ rp.pc \notin {"exited", "killed"}
    /\ ~rp.signalled
    /\ rp' = IF rp.handlers
             THEN [rp EXCEPT !.running = handle_signal(@), !.signalled = TRUE,
                             !.signal = sig]
             ELSE [rp EXCEPT !.pc = "killed", !.signalled = TRUE, !.signal = sig]
    /\ RpFrame

\* Time passes and the scheduled job becomes due.
RpTick ==
    /\ rp.job # "none"
    /\ rp.pc \notin {"exited", "killed"}
    /\ ~rp.due
    /\ rp.passes < MaxPasses
    /\ rp' = [rp EXCEPT !.due = TRUE]
    /\ RpFrame

RpProgram ==
    \/ RpEntry
    \/ RpFirstSync
    \/ RpPassEnd
    \/ RpSchedule
    \/ RpCheck
    \/ RpRunPending
    \/ RpSleep

\* ---------------------------------------------------------------------------
\* SecretsManager.get_required_secrets
\* ---------------------------------------------------------------------------

SkillNames == <<"gog", "gemini", "coding_agent">>

SKILL_REQUIRED_SECRETS ==
    [sk \in {"gog", "gemini", "coding_agent", "github"} |->
        IF sk = "gog"
        THEN <<"gog_client_id", "gog_client_secret", "gog_keyring_password">>
        ELSE <<>>]

SKILL_SECRET_DESCRIPTIONS ==
    [n \in {"gog_client_id", "gog_client_secret", "gog_keyring_password"} |->
        <<"fixed", n>>]

\* A skill setting as written in the configuration file.
RawSettings == {"unset", "on", "off"}

\* SkillsConfig / GogSkillConfig field defaults: a skill that the file does
\* not mention is loaded as enabled.
parse_skill(raw) == IF raw = "unset" THEN TRUE ELSE raw = "on"

\* SkillsConfig as loaded: every attribute holds a value.
parse_skills(raw) ==
    [sk \in DOMAIN raw |-> [set |-> TRUE, enabled |-> parse_skill(raw[sk])]]

\* [users.secrets] blocks: logical name -> secret filename, in file order.
ExtrasInputs ==
    {<<>>,
     <<[logical |-> "openrouter_api_key", filename |-> "openrouter_api_key"]>>,
     <<[logical |-> "openrouter_api_key", filename |-> "openrouter_api_key"],
       [logical |-> "gog_id", filename |-> "gog_client_id"]>>,
     <<[logical |-> "key_a", filename |-> "slack_bot_token"],
       [logical |-> "key_b", filename |-> "slack_bot_token"]>>}

\* Optional secret names (`str | None`) of the channel blocks.
NoName == [some |-> FALSE, name |-> ""]

Name(n) == [some |-> TRUE, name |-> n]

NameTruthy(o) == o.some /\ o.name # ""

\* channels.slack / channels.discord of a user.
SlackInputs ==
    {[enabled |-> FALSE, bot |-> Name("slack_bot_token"), app |-> Name("slack_app_token")],
     [enabled |-> TRUE, bot |-> Name("slack_bot_token"), app |-> Name("slack_app_token")],
     [enabled |-> TRUE, bot |-> NoName, app |-> Name("slack_app_token")]}

DiscordInputs ==
    {[enabled |-> FALSE, token |-> NoName],
     [enabled |-> TRUE, token |-> Name("discord_token")]}

Range(seq) == {seq[i] : i \in 1..Len(seq)}

Names(required) == [i \in 1..Len(required) |-> required[i].name]

\* if name not in seen: required.append((name, description)); seen.add(name)
add_required(required, name, description) ==
    IF name \in Range(Names(required)) THEN required
    ELSE Append(required, [name |-> name, description |-> description])

\* The loop over user_config.secrets.model_extra.
RECURSIVE AddExtras(_, _, _)
AddExtras(required, extras, k) ==
    IF k = 0 THEN required
    ELSE LET e == extras[k]
         IN add_required(AddExtras(required, extras, k - 1), e.filename,
                         IF e.filename \in DOMAIN SKILL_SECRET_DESCRIPTIONS
                         THEN SKILL_SECRET_DESCRIPTIONS[e.filename]
                         ELSE <<"title", e.logical>>)

\* The loop over SKILL_REQUIRED_SECRETS[skill_name].
RECURSIVE AddSkillSecrets(_, _, _)
AddSkillSecrets(required, skill_name, k) ==
    IF k = 0 THEN required
    ELSE LET n == SKILL_REQUIRED_SECRETS[skill_name][k]
         IN add_required(AddSkillSecrets(required, skill_name, k - 1), n,
                         IF n \in DOMAIN SKILL_SECRET_DESCRIPTIONS
                         THEN SKILL_SECRET_DESCRIPTIONS[n]
                         ELSE <<"api_key", skill_name>>)

\* is_enabled of one skill: with defaults, the user's value unless it is
\* None, else the defaults' value; without defaults, the user's value.
skill_enabled(skills, defaults, skill_name) ==
    IF defaults.given
    THEN IF skills[skill_name].set THEN skills[skill_name].enabled
         ELSE defaults.skills[skill_name].enabled
    ELSE skills[skill_name].enabled

\* The loop over ["gog", "gemini", "coding_agent"].
RECURSIVE AddSkills(_, _, _, _)
AddSkills(required, skills, defaults, k) ==
    IF k = 0 THEN required
    ELSE LET before == AddSkills(required, skills, defaults, k - 1)
             sk == SkillNames[k]
         IN IF skill_enabled(skills, defaults, sk) /\ sk \in DOMAIN SKILL_REQUIRED_SECRETS
            THEN AddSkillSecrets(before, sk, Len(SKILL_REQUIRED_SECRETS[sk]))
            ELSE before

\* The Slack and Discord blocks.
AddChannels(required, slack, discord) ==
    LET r1 == IF slack.enabled /\ NameTruthy(slack.bot)
              THEN add_required(required, slack.bot.name, <<"fixed", "Slack bot token">>)
              ELSE required
        r2 == IF slack.enabled /\ NameTruthy(slack.app)
              THEN add_required(r1, slack.app.name, <<"fixed", "Slack app token">>)
              ELSE r1
    IN IF discord.enabled /\ NameTruthy(discord.token)
       THEN add_required(r2, discord.token.name, <<"fixed", "Discord bot token">>)
       ELSE r2

get_required_secrets(user_config, defaults) ==
    AddChannels(
        AddSkills(AddExtras(<<>>, user_config.extras, Len(user_config.extras)),
                  user_config.skills, defaults, Len(SkillNames)),
        user_config.slack, user_config.discord)

RqFrame == UNCHANGED <<provVars, daemonVars, rp, ss, bk, sy, gc, dk, un, wb, cc, sd, tr, rb, md>>

\* A call: the configuration file is loaded (raw settings parsed), then
\* get_required_secrets(user, defaults) is applied.
RqInitWith(extras, rawUser, defaultsGiven, rawDefaults, slack, discord) ==
    rq = [pc |-> "ready", extras |-> extras, rawUser |-> rawUser,
          defaultsGiven |-> defaultsGiven, rawDefaults |-> rawDefaults,
          slack |-> slack, discord |-> discord, out |-> <<>>]

RawSkillInputs ==
    {[gog |-> g, gemini |-> m, coding_agent |-> "unset"] :
        g \in RawSettings, m \in {"unset", "off"}}

InitRq ==
    \E extras \in ExtrasInputs : \E rawUser \in RawSkillInputs :
    \E given \in BOOLEAN : \E rawDefaults \in RawSkillInputs :
    \E slack \in SlackInputs : \E discord \in DiscordInputs :
        /\ ~given => rawDefaults = [gog |-> "unset", gemini |-> "unset",
                                    coding_agent |-> "unset"]
        /\ RqInitWith(extras, rawUser, given, rawDefaults, slack, discord)

IdleRq ==
    RqInitWith(<<>>, [gog |-> "unset", gemini |-> "unset", coding_agent |-> "unset"],
               FALSE, [gog |-> "unset", gemini |-> "unset", coding_agent |-> "unset"],
               [enabled |-> FALSE, bot |-> NoName, app |-> NoName],
               [enabled |-> FALSE, token |-> NoName])

RqUser == [extras |-> rq.extras, skills |-> parse_skills(rq.rawUser),
           slack |-> rq.slack, discord |-> rq.discord]

RqDefaults == [given |-> rq.defaultsGiven, skills |-> parse_skills(rq.rawDefaults)]

GetRequiredSecrets ==
    /\ rq.pc = "ready"
    /\ rq' = [rq EXCEPT !.pc = "done",
                        !.out = get_required_secrets(RqUser, RqDefaults)]
    /\ RqFrame

\* ---------------------------------------------------------------------------
\* SecretsManager on one user's secrets directory
\* ---------------------------------------------------------------------------

SecretNames == {"api_key", "token"}

\* Values handed to write_secret: empty, whitespace only, plain, padded.
SecretValues == {<<>>, <<" ">>, <<"k">>, <<" ", "k", "\n">>}

NoRead == [op |-> "none", name |-> "none", existed |-> FALSE, stored |-> <<>>,
           result |-> NoneV]

SsFrame == UNCHANGED <<provVars, daemonVars, rp, rq, bk, sy, gc, dk, un, wb, cc, sd, tr, rb, md>>

InitSs == ss = [store |-> EmptyFn, last |-> NoRead]

\* write_secret(username, name, value)
WriteSecret(name, value) ==
    /\ ss' = [ss EXCEPT !.store = write_secret(@, name, value)]
    /\ SsFrame

\* read_secret(username, name), with what secret_exists says in that state
ReadSecret(name) ==
    /\ ss' = [ss EXCEPT !.last =
                 [op |-> "read", name |-> name,
                  existed |-> secret_exists(ss.store, name),
                  stored |-> IF name \in DOMAIN ss.store THEN ss.store[name] ELSE <<>>,
                  result |-> read_secret(ss.store, name)]]
    /\ SsFrame

\* remove_user_secrets(username): the directory is removed with its files
RemoveUserSecrets ==
    /\ ss.store # EmptyFn
    /\ ss' = [ss EXCEPT !.store = remove_user_secrets(@)]
    /\ SsFrame

\* ---------------------------------------------------------------------------
\* BackupManager on one user's workspace
\* ---------------------------------------------------------------------------

\* Files of the user directory; the include patterns (workspace/**/*.md,
\* workspace/**/*.json, openclaw.json) select the first, not the second.
BackupPaths == {"workspace/memory.md", "workspace/cache.tmp"}

include_patterns(p) == p = "workspace/memory.md"

FileContents == {"v1", "v2"}

MaxSnapshots == 3

\* The files of the user directory that match the include patterns.
Included(workspace) ==
    [p \in {q \in DOMAIN workspace : include_patterns(q)} |-> workspace[p]]

NoBackupOp == [op |-> "none", ret |-> FALSE, differed |-> FALSE, added |-> 0,
               wasInit |-> FALSE, repoSame |-> TRUE, edited |-> FALSE]

BkFrame == UNCHANGED <<provVars, daemonVars, rp, rq, ss, sy, gc, dk, un, wb, cc, sd, tr, rb, md>>

\* paths.ensure_user_dirs(username); no repository yet.
InitBk ==
    bk = [workspace |-> EmptyFn, init |-> FALSE, head |-> EmptyFn,
          snapshots |-> 0, edited |-> FALSE, last |-> NoBackupOp]

\* The repository after init_user_backup: created with its initial
\* snapshot, or left as it is when it exists.
init_user_backup(repo) ==
    IF repo.init THEN repo
    ELSE [init |-> TRUE, head |-> EmptyFn, snapshots |-> 1]

Repo == [init |-> bk.init, head |-> bk.head, snapshots |-> bk.snapshots]

InitUserBackup ==
    /\ bk' = [bk EXCEPT !.init = init_user_backup(Repo).init,
                        !.head = init_user_backup(Repo).head,
                        !.snapshots = init_user_backup(Repo).snapshots,
                        !.last = [NoBackupOp EXCEPT
                                     !.op = "init", !.wasInit = bk.init,
                                     !.repoSame = (init_user_backup(Repo) = Repo)]]
    /\ BkFrame

backup_user_always(repo, workspace) ==
    [repo |-> [repo EXCEPT !.head = Included(workspace), !.snapshots = @ + 1],
     changed |-> TRUE]

\* backup_user on an initialized repository: stage the included files,
\* diff against the last snapshot, snapshot only when they differ.
backup_user(repo, workspace) ==
    IF Included(workspace) = repo.head
    THEN [repo |-> repo, changed |-> FALSE]
    ELSE [repo |-> [repo EXCEPT !.head = Included(workspace), !.snapshots = @ + 1],
          changed |-> TRUE]

BackupUser ==
    /\ LET r0 == init_user_backup(Repo)
           r == backup_user(r0, bk.workspace)
       IN /\ r.repo.snapshots <= MaxSnapshots
          /\ bk' = [bk EXCEPT
                       !.init = r.repo.init,
                       !.head = r.repo.head,
                       !.snapshots = r.repo.snapshots,
                       !.edited = FALSE,
                       !.last = [NoBackupOp EXCEPT
                                    !.op = "backup", !.ret = r.changed,
                                    !.differed = (Included(bk.workspace) # r0.head),
                                    !.added = r.repo.snapshots - r0.snapshots,
                                    !.wasInit = bk.init,
                                    !.edited = bk.edited]]
    /\ BkFrame

\* The agent writes (creates or modifies) a file of its workspace.
WriteFile(p, c) ==
    /\ bk' = [bk EXCEPT !.workspace =
                            [q \in DOMAIN @ \cup {p} |-> IF q = p THEN c ELSE @[q]],
                        !.edited = TRUE]
    /\ BkFrame

\* ---------------------------------------------------------------------------
\* Shared collections: configuration validation, sync_collection, sync_all
\* (and backup_all)
\* ---------------------------------------------------------------------------

\* Collection names are strings split into path segments and "/" characters:
\* "a//b" is <<"a", "/", "/", "b">>.
CollectionNames ==
    {<<"a">>, <<"a", "/", "b">>, <<"..", "/", "escape">>,
     <<"a", "/", "/", "b">>, <<"/", "/", "a">>, <<"/", "a">>}

\* The collections lists of the configuration file.
CollectionLists ==
    {<<>>, <<<<"a">>>>, <<<<"a">>, <<"a", "/", "b">>>>, <<<<"a">>, <<"a">>>>,
     <<<<"a">>, <<"..", "/", "escape">>>>, <<<<"a", "/", "/", "b">>>>,
     <<<<"/", "/", "a">>, <<"a">>>>, <<<<"/", "a">>>>,
     <<<<"a", "/", "..", "/", "..", "/", "escape">>>>, <<<<"a", "/", "..", "/", "b">>>>}

RECURSIVE LeadingSlashes(_)
LeadingSlashes(name) ==
    IF name # <<>> /\ Head(name) = "/" THEN 1 + LeadingSlashes(Tail(name)) ELSE 0

RECURSIVE JoinParts(_)
JoinParts(parts) ==
    IF parts = <<>> THEN <<>>
    ELSE IF Len(parts) = 1 THEN parts
    ELSE <<Head(parts), "/">> \o JoinParts(Tail(parts))

\* Path(collection).as_posix(): repeated and trailing slashes and "."
\* segments are dropped; exactly two leading slashes are kept, any other
\* number of leading slashes becomes one; the empty path is ".".
as_posix(name) ==
    LET parts == SelectSeq(name, LAMBDA t : t # "/" /\ t # ".")
        root == IF LeadingSlashes(name) = 0 THEN <<>>
                ELSE IF LeadingSlashes(name) = 2 THEN <<"/", "/">>
                ELSE <<"/">>
    IN IF root = <<>> /\ parts = <<>> THEN <<".">> ELSE root \o JoinParts(parts)

HasDoubleSlash(name) ==
    \E i \in 1..(Len(name) - 1) : name[i] = "/" /\ name[i + 1] = "/"

\* One iteration of validate_collections: TRUE when no ValueError is raised.
validate_collection(collection) ==
    LET normalized == as_posix(collection)
    IN ~(\/ Head(normalized) = "/" \/ Head(normalized) = ".."
         \/ HasDoubleSlash(normalized))

validate_collections(v) == \A i \in 1..Len(v) : validate_collection(v[i])

\* Paths.shared_collection_dir(name): TRUE when it returns a path, FALSE when
\* it raises ValueError for a name that leaves the shared directory.
shared_collection_dir(name) ==
    ~(\/ Head(name) = "/"
      \/ \E i \in 1..Len(name) : name[i] = ".."
      \/ HasDoubleSlash(name))

\* The depth below `base` at which the OS resolves base / name[1..k]:
\* a segment goes one level down, ".." one level up, "." and "/" nowhere.
RECURSIVE DepthAt(_, _)
DepthAt(name, k) ==
    IF k = 0 THEN 0
    ELSE IF name[k] \in {"/", "."} THEN DepthAt(name, k - 1)
    ELSE IF name[k] = ".." THEN DepthAt(name, k - 1) - 1
    ELSE DepthAt(name, k - 1) + 1

\* source_path = local_source_base / name (and <data_root>/shared / name):
\* TRUE when the directory the path names lies inside the base directory.
\* A name with a leading "/" replaces the base; a prefix that climbs above
\* the base leaves it.
joined_inside_base(name) ==
    /\ name # <<>> /\ Head(name) # "/"
    /\ \A k \in 1..Len(name) : DepthAt(name, k) >= 0
    /\ DepthAt(name, Len(name)) >= 1

\* What the environment does to one sync or backup.
SyncOutcomes == {"ok", "missing", "mkdir_error", "tool_error"}

BackupOutcomes == {"changed", "unchanged", "git_error"}

Effects(name, ops) == {<<name, o>> : o \in ops}

\* sync_collection(name): result, exception raised, side effects.
sync_collection(configured, source_type, name, env) ==
    IF ~configured \/ ~shared_collection_dir(name)
    THEN [ret |-> FALSE, raised |-> "none", ops |-> {}]
    ELSE IF source_type = "local"
    THEN IF env = "missing"
         THEN [ret |-> FALSE, raised |-> "none", ops |-> {}]
         ELSE IF env = "mkdir_error"
         THEN [ret |-> FALSE, raised |-> "OSError", ops |-> Effects(name, {"mkdir"})]
         ELSE [ret |-> env = "ok", raised |-> "none",
               ops |-> Effects(name, {"mkdir", "rmtree", "copytree"})]
    ELSE IF env = "mkdir_error"
         THEN [ret |-> FALSE, raised |-> "OSError", ops |-> Effects(name, {"mkdir"})]
         ELSE [ret |-> env = "ok", raised |-> "none",
               ops |-> Effects(name, {"mkdir", "subprocess"})]

\* backup_user(username) as backup_all sees it.
backup_user_outcome(env) ==
    IF env = "git_error" THEN [ret |-> FALSE, raised |-> "GitError", ops |-> {}]
    ELSE [ret |-> env = "changed", raised |-> "none", ops |-> {}]

batch_entry_unguarded(r) == [ret |-> r.ret, abort |-> r.raised # "none"]

\* try: results[name] = ...; except Exception: results[name] = False
batch_entry(r) ==
    IF r.raised # "none" THEN [ret |-> FALSE, abort |-> FALSE]
    ELSE [ret |-> r.ret, abort |-> FALSE]

NoSync == [op |-> "none", name |-> <<>>, ret |-> FALSE, raised |-> "none"]

SyFrame == UNCHANGED <<provVars, daemonVars, rp, rq, ss, bk, gc, dk, un, wb, cc, sd, tr, rb, md>>

SyInitWith(kind, configured, source_type, raw) ==
    sy = [kind |-> kind, configured |-> configured, source_type |-> source_type,
          raw |-> raw, pc |-> "load", i |-> 0, results |-> EmptyFn,
          outcomes |-> <<>>, ops |-> {}, last |-> NoSync]

InitSy ==
    \/ \E source_type \in {"s3", "local"} : \E raw \in CollectionLists :
          SyInitWith("sync", TRUE, source_type, raw)
    \/ SyInitWith("sync", FALSE, "s3", <<>>)
    \/ SyInitWith("backup", TRUE, "s3", <<<<"alice">>, <<"bob">>>>)

IdleSy == SyInitWith("sync", FALSE, "s3", <<>>)

\* Config load: the collections validator runs; a ValueError ends the
\* program before a manager is built.
ValidateConfig ==
    /\ sy.pc = "load"
    /\ sy' = [sy EXCEPT !.pc = IF sy.kind = "sync" /\ ~validate_collections(sy.raw)
                                THEN "rejected" ELSE "ready"]
    /\ SyFrame

\* An explicit request to sync one collection by name.
SyncCollection(name, env) ==
    /\ sy.pc = "ready" /\ sy.kind = "sync"
    /\ LET r == sync_collection(sy.configured, sy.source_type, name, env)
       IN sy' = [sy EXCEPT !.ops = r.ops,
                           !.last = [op |-> "sync_collection", name |-> name,
                                     ret |-> r.ret, raised |-> r.raised]]
    /\ SyFrame

\* sync_all / backup_all: results = {} and the loop begins.
BatchBegin ==
    /\ sy.pc = "ready"
    /\ sy' = [sy EXCEPT !.pc = "loop", !.i = 1, !.results = EmptyFn,
                        !.outcomes = <<>>, !.ops = {},
                        !.last = [NoSync EXCEPT !.op = "batch"]]
    /\ SyFrame

\* One iteration of the loop with the entry it stores.
BatchItem(r, env) ==
    LET name == sy.raw[sy.i]
        e == batch_entry(r)
    IN /\ sy' = [sy EXCEPT
                    !.pc = IF e.abort THEN "ready" ELSE "loop",
                    !.i = @ + 1,
                    !.results = IF e.abort THEN @
                                ELSE [n \in DOMAIN @ \cup {name} |->
                                         IF n = name THEN e.ret ELSE @[n]],
                    !.outcomes = Append(@, env),
                    !.ops = @ \cup r.ops,
                    !.last = IF e.abort
                             THEN [op |-> "batch_done", name |-> name,
                                   ret |-> FALSE, raised |-> r.raised]
                             ELSE @]
       /\ SyFrame

SyncAllItem(env) ==
    /\ sy.pc = "loop" /\ sy.kind = "sync" /\ sy.i <= Len(sy.raw)
    /\ BatchItem(sync_collection(sy.configured, sy.source_type, sy.raw[sy.i], env), env)

BackupAllItem(env) ==
    /\ sy.pc = "loop" /\ sy.kind = "backup" /\ sy.i <= Len(sy.raw)
    /\ BatchItem(backup_user_outcome(env), env)

\* return results
BatchReturn ==
    /\ sy.pc = "loop" /\ sy.i > Len(sy.raw)
    /\ sy' = [sy EXCEPT !.pc = "ready",
                        !.last = [NoSync EXCEPT !.op = "batch_done"]]
    /\ SyFrame

\* ---------------------------------------------------------------------------
\* Runs of the runtime config generator with fixed arguments
\* ---------------------------------------------------------------------------

MaxRuns == 2

\* user.channels / user.skills.gog as the generator reads them.
GeneratorUsers ==
    [slack : BOOLEAN, discord : BOOLEAN, gog_enabled : BOOLEAN,
     gog_email : {NoneV, Some(<<>>), Some(<<"a", "@">>)}]

\* user.agent.model: "" (defaults.model is used), "glm", "z-ai/glm",
\* "openrouter/z-ai/glm", "openrouter".
GeneratorModels ==
    {<<>>, <<"glm">>, <<"z-ai", "glm">>, <<"openrouter", "z-ai", "glm">>,
     <<"openrouter">>}

GatewayTokenInputs == {NoneV, Some(<<>>), Some(<<"t", "1">>)}

ProviderHints == {NoneV, Some(<<"openrouter">>), Some(<<"anthropic">>)}

\* Values of the user's channel and skill secret files.
ChannelSecretValues == {<<"b">>, <<"x">>}

GcFrame == UNCHANGED <<provVars, daemonVars, rp, rq, ss, bk, sy, dk, un, wb, cc, sd, tr, rb, md>>

GcInitWith(user, model, gateway_token, provider) ==
    gc = [user |-> user, model |-> model, gateway_token |-> gateway_token,
          provider |-> provider, store |-> <<"b">>, docs |-> <<>>,
          stores |-> <<>>, file |-> <<>>, files |-> <<>>]

InitGc ==
    \E user \in GeneratorUsers : \E model \in GeneratorModels :
    \E gateway_token \in GatewayTokenInputs : \E provider \in ProviderHints :
        GcInitWith(user, model, gateway_token, provider)

IdleGc == GcInitWith([slack |-> FALSE, discord |-> FALSE, gog_enabled |-> FALSE,
                      gog_email |-> NoneV], <<>>, NoneV, NoneV)

\* generate_openclaw_config(user, defaults, gateway_token=..., provider=...)
GenerateConfig ==
    /\ Len(gc.docs) < MaxRuns
    /\ gc' = [gc EXCEPT
                 !.docs = Append(@, config_document(gc.user, gc.model,
                                                    gc.gateway_token, gc.provider)),
                 !.stores = Append(@, gc.store)]
    /\ GcFrame

\* write_openclaw_config(user, defaults, path, gateway_token=..., provider=...)
WriteConfig ==
    /\ Len(gc.files) < MaxRuns
    /\ LET content == <<[doc |-> config_document(gc.user, gc.model,
                                                 gc.gateway_token, gc.provider),
                         newline |-> TRUE]>>
       IN gc' = [gc EXCEPT !.file = write_text(@, content),
                           !.files = Append(@, write_text(gc.file, content))]
    /\ GcFrame

\* The user's channel or skill secrets are rewritten between runs.
SecretsChange(v) ==
    /\ gc.store # v
    /\ gc' = [gc EXCEPT !.store = v]
    /\ GcFrame

\* ---------------------------------------------------------------------------
\* DockerManager methods and exec into a container, on one user's container
\* ---------------------------------------------------------------------------

DockerOps ==
    {"create_network", "remove_network", "create_container", "start_container",
     "stop_container", "restart_container", "remove_container"}

\* A DockerManager method on container status c and network existence n:
\* containers.get raises NotFound for an absent container; only
\* stop_container and remove_container catch it.
docker_manager(op, c, n) ==
    CASE op = "create_network" ->
           [container |-> c, network |-> TRUE, raised |-> "none"]
      [] op = "remove_network" ->
           [container |-> c, network |-> remove_network(n).exists, raised |-> "none"]
      [] op = "create_container" ->
           IF c = "absent"
           THEN [container |-> "created", network |-> TRUE, raised |-> "none"]
           ELSE [container |-> c, network |-> TRUE, raised |-> "Conflict"]
      [] op = "start_container" ->
           IF c = "absent"
           THEN [container |-> c, network |-> n, raised |-> "NotFound"]
           ELSE [container |-> "running", network |-> n, raised |-> "none"]
      [] op = "stop_container" ->
           IF c \in {"running", "restarting"}
           THEN [container |-> "exited", network |-> n, raised |-> "none"]
           ELSE [container |-> c, network |-> n, raised |-> "none"]
      [] op = "restart_container" ->
           IF c = "absent"
           THEN [container |-> c, network |-> n, raised |-> "NotFound"]
           ELSE [container |-> "running", network |-> n, raised |-> "none"]
      [] op = "remove_container" ->
           [container |-> remove_container(c).status, network |-> n, raised |-> "none"]

NoDockerCall == [op |-> "none", raised |-> "none", container |-> "absent",
                 network |-> FALSE, same |-> TRUE]

NoExec == [pc |-> "idle", seen |-> "none", attempted |-> FALSE, atExec |-> "none",
           code |-> 0, kind |-> "none", raised |-> "none"]

DkFrame == UNCHANGED <<provVars, daemonVars, rp, rq, ss, bk, sy, gc, un, wb, cc, sd, tr, rb, md>>

IdleDk == dk = [container |-> "absent", network |-> FALSE, last |-> NoDockerCall,
                ex |-> NoExec]

\* One DockerManager method call; `last` keeps the state it found.
DockerCall(op) ==
    /\ LET r == docker_manager(op, dk.container, dk.network)
       IN dk' = [dk EXCEPT !.container = r.container, !.network = r.network,
                           !.last = [op |-> op, raised |-> r.raised,
                                     container |-> dk.container,
                                     network |-> dk.network,
                                     same |-> (r.container = dk.container
                                               /\ r.network = dk.network)]]
    /\ DkFrame

\* The engine: a running container whose process dies enters the restart
\* loop (restart policy unless-stopped) and comes back.
EngineRestartLoop ==
    /\ dk.container \in {"running", "restarting"}
    /\ dk' = [dk EXCEPT !.container = IF @ = "running" THEN "restarting" ELSE "running"]
    /\ DkFrame

exec_error_always_raise(atExec) ==
    [code |-> 1, kind |-> "none", raised |-> "APIError"]

\* except docker.errors.APIError: the 409 of a restarting container becomes
\* the restarting outcome, every other API error is raised again.
exec_error(atExec) ==
    IF atExec = "restarting"
    THEN [code |-> 1, kind |-> "restarting", raised |-> "none"]
    ELSE [code |-> 1, kind |-> "none", raised |-> "APIError"]

\* _exec_in_container: client.containers.get(container_name)
ExecGet ==
    /\ dk.ex.pc \in {"idle", "done"}
    /\ dk' = [dk EXCEPT !.ex =
                 IF dk.container = "absent"
                 THEN [NoExec EXCEPT !.pc = "done", !.seen = "absent", !.code = 1,
                                     !.kind = "not_found"]
                 ELSE [NoExec EXCEPT !.pc = "got"]]
    /\ DkFrame

\* container.reload() and the two status tests
ExecCheck ==
    /\ dk.ex.pc = "got"
    /\ dk' = [dk EXCEPT !.ex =
                 IF dk.container = "absent"
                 THEN [@ EXCEPT !.pc = "done", !.seen = "absent", !.code = 1,
                                !.raised = "NotFound"]
                 ELSE IF dk.container = "restarting"
                 THEN [@ EXCEPT !.pc = "done", !.seen = dk.container, !.code = 1,
                                !.kind = "restarting"]
                 ELSE IF dk.container # "running"
                 THEN [@ EXCEPT !.pc = "done", !.seen = dk.container, !.code = 1,
                                !.kind = "not_running"]
                 ELSE [@ EXCEPT !.pc = "checked", !.seen = dk.container]]
    /\ DkFrame

\* container.exec_run(cmd): the command's exit code, or the engine's error
ExecRun(exit_code) ==
    /\ dk.ex.pc = "checked"
    /\ dk' = [dk EXCEPT !.ex =
                 IF dk.container = "running"
                 THEN [@ EXCEPT !.pc = "done", !.attempted = TRUE,
                                !.atExec = dk.container, !.code = exit_code,
                                !.kind = "exec"]
                 ELSE [@ EXCEPT !.pc = "done", !.attempted = TRUE,
                                !.atExec = dk.container,
                                !.code = exec_error(dk.container).code,
                                !.kind = exec_error(dk.container).kind,
                                !.raised = exec_error(dk.container).raised]]
    /\ DkFrame

\* ---------------------------------------------------------------------------
\* UserConfig.validate_name
\* ---------------------------------------------------------------------------

\* The {0,31} of the pattern.
NameTailMax == 31

\* Length of the short names enumerated in full.
MaxNameLen == 3

\* One character of each kind: lowercase, digit, hyphen, uppercase, space,
\* line break.
NameChars == {"a", "0", "-", "A", " ", "\n"}

LowerOrDigit(c) == c \in {"a", "0"}

Repeat(c, n) == [i \in 1..n |-> c]

RECURSIVE SeqsOver(_, _)
SeqsOver(chars, n) ==
    IF n = 0 THEN {<<>>}
    ELSE SeqsOver(chars, n - 1)
         \cup {Append(v, c) : v \in {w \in SeqsOver(chars, n - 1) : Len(w) = n - 1},
                              c \in chars}

\* Every name up to MaxNameLen characters, and names around the length
\* limit of the pattern.
NameInputs ==
    SeqsOver(NameChars, MaxNameLen)
    \cup {Repeat("a", NameTailMax), Repeat("a", NameTailMax + 1),
          Repeat("a", NameTailMax + 2),
          Repeat("a", NameTailMax) \o <<"-">>,
          Repeat("a", NameTailMax + 1) \o <<"\n">>,
          Repeat("a", NameTailMax + 1) \o <<"-">>,
          <<"-">> \o Repeat("a", NameTailMax)}

\* re.match(r"^[a-z0-9][a-z0-9-]{0,31}$", v): the first character, up to
\* NameTailMax further ones, then `$`, which matches at the end of the
\* string and also just before a line break that ends the string.
validate_name(v) ==
    \E n \in {Len(v), Len(v) - 1} :
        /\ n >= 1 /\ n <= NameTailMax + 1
        /\ LowerOrDigit(v[1])
        /\ \A i \in 2..n : LowerOrDigit(v[i]) \/ v[i] = "-"
        /\ n = Len(v) - 1 => v[Len(v)] = "\n"

UnFrame == UNCHANGED <<provVars, daemonVars, rp, rq, ss, bk, sy, gc, dk, wb, cc, sd, tr, rb, md>>

InitUn == \E v \in NameInputs : un = [name |-> v, pc |-> "given", accepted |-> FALSE]

IdleUn == un = [name |-> <<"a">>, pc |-> "given", accepted |-> FALSE]

\* UserConfig(name=v, ...): the validator returns v or raises ValueError.
ValidateName ==
    /\ un.pc = "given"
    /\ un' = [un EXCEPT !.pc = "validated", !.accepted = validate_name(un.name)]
    /\ UnFrame

\* ---------------------------------------------------------------------------
\* The web endpoint PATCH /users/{username}/model
\* ---------------------------------------------------------------------------

\* What the request meets: the configuration file, the user's secrets, the
\* cached model list, the config writer, the container and the engine.
WebEnvs ==
    [config_found : BOOLEAN,
     load : {"ok", "ValueError"},
     user_in_config : BOOLEAN,
     requires_openrouter : BOOLEAN,
     openrouter_key : BOOLEAN,
     cache : {"empty", "has", "lacks", "raises"},
     writer : {"ok", "ImportError", "ValueError", "OSError"},
     reload_user : BOOLEAN,
     container_exists : BOOLEAN,
     exec_ok : BOOLEAN,
     restart : {"ok", "APIError"}]

NoExc == [type |-> "none", status_code |-> 0]

HTTPException(status_code) == [type |-> "HTTPException", status_code |-> status_code]

Raised(type) == [type |-> type, status_code |-> 0]

\* The body of the try statement: where it ends and what it raises there.
try_body(env) ==
    IF env.writer # "ok" THEN [at |-> "writer", exc |-> Raised(env.writer)]
    ELSE IF ~env.reload_user THEN [at |-> "reload", exc |-> HTTPException(500)]
    ELSE IF ~env.container_exists
         THEN [at |-> "container", exc |-> HTTPException(404)]
    ELSE IF ~env.exec_ok THEN [at |-> "exec", exc |-> HTTPException(500)]
    ELSE IF env.restart # "ok" THEN [at |-> "restart", exc |-> Raised(env.restart)]
    ELSE [at |-> "return", exc |-> NoExc]

NoChange == [toml |-> FALSE, runtime |-> FALSE, restarted |-> FALSE]

\* What the try body has done when it ends: config_writer.update_user_model
\* rewrote the user's model in clawctl.toml (its first statement; a writer
\* that raises has written nothing), the exec in the container wrote
\* openclaw.json, restart_container restarted the container.
try_effects(env) ==
    [toml |-> try_body(env).at # "writer",
     runtime |-> try_body(env).at \in {"restart", "return"},
     restarted |-> try_body(env).at = "return"]

\* except ImportError / except ValueError / except Exception: the last
\* clause also catches an HTTPException raised inside the try statement.
except_clauses(exc) ==
    CASE exc.type = "none" -> 200
      [] exc.type = "ImportError" -> 503
      [] exc.type = "ValueError" -> 400
      [] OTHER -> 500

WbFrame == UNCHANGED <<provVars, daemonVars, rp, rq, ss, bk, sy, gc, dk, un, cc, sd, tr, rb, md>>

WbInitWith(envs) ==
    \E env \in envs : wb = [env |-> env, pc |-> "find_config", at |-> "none",
                            status |-> 0, changed |-> NoChange]

InitWb == WbInitWith(WebEnvs)

IdleWb ==
    WbInitWith({[config_found |-> TRUE, load |-> "ok", user_in_config |-> TRUE,
                 requires_openrouter |-> FALSE, openrouter_key |-> FALSE,
                 cache |-> "empty", writer |-> "ok", reload_user |-> TRUE,
                 container_exists |-> TRUE, exec_ok |-> TRUE, restart |-> "ok"]})

Respond(at, status_code) ==
    wb' = [wb EXCEPT !.pc = "responded", !.at = at, !.status = status_code]

\* find_config_path(config_path): 503 without a configuration file.
WebFindConfig ==
    /\ wb.pc = "find_config"
    /\ IF ~wb.env.config_found THEN Respond("find_config", 503)
       ELSE wb' = [wb EXCEPT !.pc = "get_user"]
    /\ WbFrame

\* load_config and config.get_user, before the try statement: a ValueError
\* of load_config leaves the handler and is answered 500.
WebGetUser ==
    /\ wb.pc = "get_user"
    /\ IF wb.env.load # "ok" THEN Respond("load_config", 500)
       ELSE IF ~wb.env.user_in_config THEN Respond("get_user", 404)
       ELSE wb' = [wb EXCEPT !.pc = "validate"]
    /\ WbFrame

\* The request checks: the API key of a routed model, then the model list
\* (skipped when the list is empty or reading it raises).
WebValidate ==
    /\ wb.pc = "validate"
    /\ IF wb.env.requires_openrouter /\ ~wb.env.openrouter_key
       THEN Respond("api_key", 400)
       ELSE IF wb.env.requires_openrouter /\ wb.env.cache = "lacks"
       THEN Respond("model_cache", 400)
       ELSE wb' = [wb EXCEPT !.pc = "apply"]
    /\ WbFrame

\* The try statement and its except clauses.
WebApply ==
    /\ wb.pc = "apply"
    /\ wb' = [wb EXCEPT !.pc = "responded", !.at = try_body(wb.env).at,
                        !.status = except_clauses(try_body(wb.env).exc),
                        !.changed = try_effects(wb.env)]
    /\ WbFrame

\* ---------------------------------------------------------------------------
\* Two UserManager calls in flight for the same user
\* ---------------------------------------------------------------------------

\* The user both calls name: no workspace template, no secret values supplied.
ConcurrentUser == "bob"

CallerIds == {1, 2}

\* The pairs of operations running side by side.
CallPairs == {<<"provision", "provision">>, <<"provision", "remove">>}

\* A call about to execute its first statement.
NewCaller(op) ==
    [op |-> op, pc |-> IF op = "provision" THEN "dirs" ELSE "rm_container",
     needs |-> FALSE, gw |-> NoneV, wrote |-> FALSE]

CcFrame == UNCHANGED <<provVars, daemonVars, rp, rq, ss, bk, sy, gc, dk, un, wb, sd, tr, rb, md>>

\* No call in flight.
IdleCc ==
    cc = [dirs |-> {}, secrets |-> EmptyFn, config |-> <<>>,
          container |-> "absent", network |-> FALSE, image |-> FALSE,
          fresh |-> TRUE,
          calls |-> [i \in CallerIds |->
                        [NewCaller("provision") EXCEPT !.pc = "returned"]]]

\* One statement of provision_user(ConcurrentUser, {}) executed by call i;
\* the statements of the other call may run between any two of them.
ProvisionStep(i) ==
    /\ cc.calls[i].op = "provision"
    /\ CASE cc.calls[i].pc = "dirs" ->
              cc' = [cc EXCEPT !.dirs = @ \cup UserSubdirs \cup {"secrets"},
                               !.calls[i].pc = "secret_exists"]
         [] cc.calls[i].pc = "secret_exists" ->
              cc' = [cc EXCEPT !.calls[i].needs = provision_needs_token(cc.secrets),
                               !.calls[i].pc = "write_token"]
         [] cc.calls[i].pc = "write_token" ->
              IF cc.calls[i].needs
              THEN \E t \in Tokens :
                     cc' = [cc EXCEPT !.secrets = write_secret(@, GATEWAY_TOKEN_SECRET_NAME, t),
                                      !.dirs = @ \cup {"secrets"},
                                      !.calls[i].pc = "read_token"]
              ELSE cc' = [cc EXCEPT !.calls[i].pc = "read_token"]
         [] cc.calls[i].pc = "read_token" ->
              cc' = [cc EXCEPT !.calls[i].gw = read_secret(cc.secrets, GATEWAY_TOKEN_SECRET_NAME),
                               !.calls[i].pc = "config"]
         [] cc.calls[i].pc = "config" ->
              cc' = [cc EXCEPT !.config = write_openclaw_config(ConcurrentUser, DefaultModel,
                                                                cc.calls[i].gw, NoneV),
                               !.dirs = @ \cup {"openclaw"},
                               !.calls[i].wrote = TRUE,
                               !.calls[i].pc = "image"]
         [] cc.calls[i].pc = "image" ->
              cc' = [cc EXCEPT !.image = TRUE, !.calls[i].pc = "create"]
         [] cc.calls[i].pc = "create" ->
              cc' = [cc EXCEPT !.network = TRUE,
                               !.dirs = @ \cup {"openclaw", "workspace"},
                               !.container = IF @ = "absent" THEN "created" ELSE @,
                               !.calls[i].pc = IF cc.container = "absent"
                                               THEN "start" ELSE "raised"]
         [] cc.calls[i].pc = "start" ->
              cc' = [cc EXCEPT !.container = IF @ = "absent" THEN @ ELSE "running",
                               !.calls[i].pc = IF cc.container = "absent"
                                               THEN "raised" ELSE "returned"]
         [] OTHER -> FALSE
    /\ CcFrame

\* One statement of remove_user(ConcurrentUser, keep_data=False) executed by
\* call i.
RemoveStep(i) ==
    /\ cc.calls[i].op = "remove"
    /\ CASE cc.calls[i].pc = "rm_container" ->
              cc' = [cc EXCEPT !.container = remove_container(@).status,
                               !.calls[i].pc = "rm_network"]
         [] cc.calls[i].pc = "rm_network" ->
              cc' = [cc EXCEPT !.network = remove_network(@).exists,
                               !.calls[i].pc = "rm_data"]
         [] cc.calls[i].pc = "rm_data" ->
              cc' = [cc EXCEPT !.dirs = @ \ UserSubdirs, !.config = <<>>,
                               !.calls[i].pc = "rm_secrets"]
         [] cc.calls[i].pc = "rm_secrets" ->
              cc' = [cc EXCEPT !.secrets = remove_user_secrets(@),
                               !.dirs = @ \ {"secrets"},
                               !.calls[i].pc = "returned"]
         [] OTHER -> FALSE
    /\ CcFrame

\* ---------------------------------------------------------------------------
\* Two schedule_start commands in flight
\* ---------------------------------------------------------------------------

\* PIDs the operating system gives to spawned daemon processes, in order.
SpawnPids == {1, 2}

SdFrame == UNCHANGED <<provVars, daemonVars, rp, rq, ss, bk, sy, gc, dk, un, wb, cc, tr, rb, md>>

\* The PID of a daemon that ended before, left behind in a stale PID file.
StalePid == Cardinality(SpawnPids) + 1

SdInitWith(pcs, pid_file) ==
    sd = [pidFile |-> pid_file, spawned |-> {}, live |-> {},
          calls |-> [i \in CallerIds |-> [pc |-> pcs[i], proc |-> 0]]]

\* No daemon process runs (the PID file is absent or stale): both commands
\* are about to start.
InitSd ==
    \E pid_file \in {<<>>, <<StalePid>>} :
        SdInitWith([i \in CallerIds |-> "cli_check"], pid_file)

IdleSd == SdInitWith([i \in CallerIds |-> "returned"], <<>>)

\* is_daemon_running() of a caller owning the daemon: the result and the
\* PID file it leaves (a stale file is unlinked).
daemon_running(pid_file, live) ==
    IF pid_file = <<>> THEN [ret |-> FALSE, pidFile |-> pid_file]
    ELSE IF pid_file[1] \in live THEN [ret |-> TRUE, pidFile |-> pid_file]
    ELSE [ret |-> FALSE, pidFile |-> <<>>]

\* One statement of schedule_start / start_daemon executed by command i:
\* the command's own is_daemon_running check, the check of start_daemon,
\* subprocess.Popen, pid_file.write_text(str(proc.pid)).
StartDaemonStep(i) ==
    /\ CASE sd.calls[i].pc = "cli_check" ->
              sd' = [sd EXCEPT !.pidFile = daemon_running(sd.pidFile, sd.live).pidFile,
                               !.calls[i].pc =
                                   IF daemon_running(sd.pidFile, sd.live).ret
                                   THEN "exit" ELSE "check"]
         [] sd.calls[i].pc = "check" ->
              sd' = [sd EXCEPT !.pidFile = daemon_running(sd.pidFile, sd.live).pidFile,
                               !.calls[i].pc =
                                   IF daemon_running(sd.pidFile, sd.live).ret
                                   THEN "raised" ELSE "spawn"]
         [] sd.calls[i].pc = "spawn" ->
              LET pid == Cardinality(sd.spawned) + 1
              IN sd' = [sd EXCEPT !.spawned = @ \cup {pid}, !.live = @ \cup {pid},
                                  !.calls[i].proc = pid,
                                  !.calls[i].pc = "write"]
         [] sd.calls[i].pc = "write" ->
              sd' = [sd EXCEPT !.pidFile = <<sd.calls[i].proc>>,
                               !.calls[i].pc = "returned"]
         [] OTHER -> FALSE
    /\ SdFrame

\* stop_daemon(): SIGTERM to the recorded PID (a dead one is tolerated), then
\* the PID file is unlinked.
StopSpawned ==
    /\ sd.pidFile # <<>>
    /\ sd' = [sd EXCEPT !.live = @ \ {sd.pidFile[1]}, !.pidFile = <<>>]
    /\ SdFrame

\* A daemon process ends on its own.
SpawnedExit(p) ==
    /\ p \in sd.live
    /\ sd' = [sd EXCEPT !.live = @ \ {p}]
    /\ SdFrame

\* ---------------------------------------------------------------------------
\* The directory trees of one shared collection
\* ---------------------------------------------------------------------------

\* A tree is a function from the paths it holds to their entries; the tree
\* exists when it holds its root ".". EmptyFn is a missing directory.
TreePaths == {".", "f", "d", "d/g"}

DirEntry(mode) == [kind |-> "dir", content |-> "", mode |-> mode]

FileEntry(content, mode) == [kind |-> "file", content |-> content, mode |-> mode]

TreeShapes == {S \in SUBSET TreePaths : "." \in S /\ ("d/g" \in S => "d" \in S)}

\* Source directories: modes as their owner left them.
SourceEntry(p, root_mode, content) ==
    IF p = "." THEN DirEntry(root_mode)
    ELSE IF p = "d" THEN DirEntry(700)
    ELSE IF p = "f" THEN FileEntry(content, 600)
    ELSE FileEntry("v1", 640)

SourceTrees ==
    {[p \in S |-> SourceEntry(p, m, c)] :
        S \in TreeShapes, m \in {755, 700}, c \in {"v1", "v2"}}

FilesOf(tree) == {p \in DOMAIN tree : tree[p].kind = "file"}

Restrict(tree, S) == [p \in S |-> tree[p]]

\* Path.mkdir(parents=True, exist_ok=True)
mkdir(tree) == IF tree = EmptyFn THEN [p \in {"."} |-> DirEntry(755)] ELSE tree

\* shutil.rmtree(path)
rmtree(tree) == EmptyFn

\* shutil.copytree(src, dst) into a missing dst: directories and files are
\* copied with their permission bits; the files in `bad` cannot be copied
\* (shutil.Error is raised after the rest was copied).
copytree(src, bad) == Restrict(src, DOMAIN src \ bad)

\* _set_permissions: os.walk, chmod 755 on directories and 644 on files.
set_permissions(tree) ==
    [p \in DOMAIN tree |->
        [tree[p] EXCEPT !.mode = IF tree[p].kind = "dir" THEN 755 ELSE 644]]

\* What goes wrong during a local sync: nothing, an OSError of rmtree
\* after the entries outside `kept` were removed, or the files `bad` failing
\* in copytree.
LocalFaults(src, dest) ==
    {[at |-> "none", kept |-> {}, bad |-> {}]}
    \cup {[at |-> "rmtree", kept |-> K, bad |-> {}] :
             K \in {DOMAIN mkdir(dest), {"."}}}
    \cup {[at |-> "copytree", kept |-> {}, bad |-> B] :
             B \in SUBSET FilesOf(src) \ {{}}}

sync_from_local_merge(src, dest, fault) ==
    IF src = EmptyFn THEN [ret |-> FALSE, dest |-> dest]
    ELSE [ret |-> fault.at = "none",
          dest |-> set_permissions([p \in DOMAIN src \cup DOMAIN dest |->
                                       IF p \in DOMAIN src THEN src[p] ELSE dest[p]])]

\* _sync_from_local: False without touching anything when the source is
\* missing; else mkdir, rmtree of the destination, copytree, _set_permissions.
sync_from_local(src, dest, fault) ==
    IF src = EmptyFn THEN [ret |-> FALSE, dest |-> dest]
    ELSE IF fault.at = "rmtree"
    THEN [ret |-> FALSE, dest |-> Restrict(mkdir(dest), fault.kept)]
    ELSE IF fault.at = "copytree"
    THEN [ret |-> FALSE, dest |-> copytree(src, fault.bad)]
    ELSE [ret |-> TRUE, dest |-> set_permissions(copytree(src, {}))]

\* Outcomes of `aws s3 sync ... --delete`: success, a non-zero exit or a
\* timeout after the objects `got` were downloaded, or no aws executable.
S3Faults(src) ==
    {[at |-> "none", got |-> {}], [at |-> "FileNotFoundError", got |-> {}]}
    \cup {[at |-> e, got |-> G] :
             e \in {"CalledProcessError", "TimeoutExpired"},
             G \in SUBSET FilesOf(src)}

\* The local files after the objects `got` of the bucket were downloaded:
\* their parent directories are created, files get the default mode.
Downloaded(src, dest, got) ==
    [p \in DOMAIN dest \cup got \cup {"d" : q \in got \cap {"d/g"}} |->
        IF p \in got THEN FileEntry(src[p].content, 644)
        ELSE IF p \in DOMAIN dest THEN dest[p]
        ELSE DirEntry(755)]

\* _sync_from_s3: mkdir, the aws subprocess, _set_permissions on success. The
\* bucket holds the files of src; --delete removes local files that are not
\* in the bucket.
sync_from_s3(src, dest, fault) ==
    IF fault.at = "FileNotFoundError" THEN [ret |-> FALSE, dest |-> mkdir(dest)]
    ELSE IF fault.at # "none"
    THEN [ret |-> FALSE, dest |-> Downloaded(src, mkdir(dest), fault.got)]
    ELSE [ret |-> TRUE,
          dest |-> set_permissions(
                     Restrict(Downloaded(src, mkdir(dest), FilesOf(src)),
                              (DOMAIN mkdir(dest) \ FilesOf(mkdir(dest)))
                              \cup FilesOf(src) \cup {"d" : q \in FilesOf(src) \cap {"d/g"}}))]

NoTreeSync == [op |-> "none", ret |-> FALSE, before |-> EmptyFn, again |-> FALSE]

TrFrame == UNCHANGED <<provVars, daemonVars, rp, rq, ss, bk, sy, gc, dk, un, wb, cc, sd, rb, md>>

TrInitWith(source_types, sources) ==
    \E st \in source_types : \E src \in sources :
        tr = [source_type |-> st, src |-> src, dest |-> EmptyFn, last |-> NoTreeSync]

\* Nothing has been synced yet; the source may be missing.
InitTr == TrInitWith({"local", "s3"}, SourceTrees \cup {EmptyFn})

IdleTr == TrInitWith({"local"}, {EmptyFn})

\* sync_collection(name) for the configured source kind.
SyncTree ==
    /\ \E r \in IF tr.source_type = "local"
                THEN {sync_from_local(tr.src, tr.dest, f) : f \in LocalFaults(tr.src, tr.dest)}
                ELSE {sync_from_s3(tr.src, tr.dest, f) : f \in S3Faults(tr.src)} :
         tr' = [tr EXCEPT !.dest = r.dest,
                          !.last = [op |-> tr.source_type, ret |-> r.ret,
                                    before |-> tr.dest,
                                    again |-> tr.last.op = tr.source_type /\ tr.last.ret]]
    /\ TrFrame

\* The owner of the source replaces its content.
SourceChange(src) ==
    /\ src # tr.src
    /\ tr' = [tr EXCEPT !.src = src, !.last = NoTreeSync]
    /\ TrFrame

\* ---------------------------------------------------------------------------
\* DockerManager.rebuild_all
\* ---------------------------------------------------------------------------

\* config.users, in order.
ConfigUsers == <<"alice", "bob">>

\* What a container is before the call: none, running, stopped, or created
\* and never started.
PriorStatuses == {"absent", "running", "exited", "created"}

was_running_always(status) == TRUE

\* was_running = get_container_status(name) == "running"
was_running(status) == status = "running"

RbFrame == UNCHANGED <<provVars, daemonVars, rp, rq, ss, bk, sy, gc, dk, un, wb, cc, sd, tr, md>>

RbInitWith(statuses, at_pc) ==
    \E st \in statuses :
        rb = [status |-> st, before |-> st, pc |-> at_pc, i |-> 1,
              was_running |-> FALSE, updated |-> <<>>, at |-> "none"]

InitRb == RbInitWith([{ConfigUsers[k] : k \in 1..Len(ConfigUsers)} -> PriorStatuses], "build")

IdleRb == RbInitWith({[u \in {ConfigUsers[k] : k \in 1..Len(ConfigUsers)} |-> "absent"]}, "returned")

\* One statement of rebuild_all; with ok = FALSE the statement raises
\* (docker build exits non-zero, the engine answers with an APIError) and
\* rebuild_all propagates it.
RebuildAllStep(ok) ==
    /\ LET u == ConfigUsers[rb.i]
           Raise == [rb EXCEPT !.pc = "raised", !.at = rb.pc]
       IN CASE rb.pc = "build" ->
                 rb' = IF ok THEN [rb EXCEPT !.pc = IF Len(ConfigUsers) = 0
                                                  THEN "returned" ELSE "exists"]
                       ELSE Raise
            [] rb.pc = "exists" ->
                 /\ ok
                 /\ rb' = IF rb.status[u] # "absent"
                          THEN [rb EXCEPT !.was_running = was_running(rb.status[u]),
                                          !.pc = "remove"]
                          ELSE [rb EXCEPT !.pc = IF rb.i = Len(ConfigUsers)
                                                 THEN "returned" ELSE "exists",
                                          !.i = IF rb.i = Len(ConfigUsers)
                                                THEN @ ELSE @ + 1]
            [] rb.pc = "remove" ->
                 IF ok
                 THEN rb' = [rb EXCEPT !.status[u] = remove_container(@).status,
                                       !.pc = "create"]
                 ELSE \E st \in {rb.status[u], "exited"} :
                        rb' = [Raise EXCEPT !.status[u] = st]
            [] rb.pc = "create" ->
                 rb' = IF ok
                       THEN [rb EXCEPT !.status[u] = "created",
                                       !.pc = IF rb.was_running THEN "start" ELSE "next"]
                       ELSE Raise
            [] rb.pc = "start" ->
                 rb' = IF ok
                       THEN [rb EXCEPT !.status[u] = "running", !.pc = "next"]
                       ELSE Raise
            [] rb.pc = "next" ->
                 /\ ok
                 /\ rb' = [rb EXCEPT !.updated = Append(@, u),
                                     !.pc = IF rb.i = Len(ConfigUsers)
                                            THEN "returned" ELSE "exists",
                                     !.i = IF rb.i = Len(ConfigUsers) THEN @ ELSE @ + 1]
            [] OTHER -> FALSE
    /\ RbFrame

\* ---------------------------------------------------------------------------
\* Model defaults of the configuration file
\* ---------------------------------------------------------------------------

\* The `model` key of [users.agent] or [clawctl.defaults] in clawctl.toml:
\* absent, or a string.
ModelFields == {NoneV} \cup {Some(m) : m \in GeneratorModels}

\* UserAgentConfig.model: str = "openrouter/z-ai/glm-4.5-air:free"
UserAgentConfig(field) == IF field.some THEN field.val ELSE DefaultModel

\* DefaultsConfig.model: str = "openrouter/z-ai/glm-4.5-air:free"
DefaultsConfig(field) == IF field.some THEN field.val ELSE DefaultModel

MdFrame == UNCHANGED <<provVars, daemonVars, rp, rq, ss, bk, sy, gc, dk, un, wb, cc, sd, tr, rb>>

MdInitWith(fields, hints) ==
    \E uf \in fields : \E df \in fields : \E provider \in hints :
        md = [user_field |-> uf, defaults_field |-> df, provider |-> provider,
              pc |-> "toml", user_model |-> <<>>, defaults_model |-> <<>>,
              primary |-> <<>>]

InitMd == MdInitWith(ModelFields, ProviderHints)

IdleMd == MdInitWith({NoneV}, {NoneV})

\* load_config: Config.model_validate(raw) fills the missing fields with
\* the class defaults.
LoadModels ==
    /\ md.pc = "toml"
    /\ md' = [md EXCEPT !.user_model = UserAgentConfig(md.user_field),
                        !.defaults_model = DefaultsConfig(md.defaults_field),
                        !.pc = "loaded"]
    /\ MdFrame

\* generate_openclaw_config(user, defaults, provider=...): the primary model.
GeneratePrimary ==
    /\ md.pc = "loaded"
    /\ md' = [md EXCEPT !.primary = RouteModel(effective_model(md.user_model,
                                                               md.defaults_model),
                                               md.provider),
                        !.pc = "generated"]
    /\ MdFrame

\* ---------------------------------------------------------------------------
\* Specification of the provisioning core
\* ---------------------------------------------------------------------------

\* The secret values the operator supplies when adding user u.
FullSecrets(u) ==
    CHOOSE sv \in SecretInputs(u) : \A other \in SecretInputs(u) : Len(sv) >= Len(other)

\* The state provision_user(u, FullSecrets(u)) leaves for a new user.
ProvisionedSecrets(u) ==
    write_secret(WriteSecrets(EmptyFn, FullSecrets(u), Len(FullSecrets(u))),
                 GATEWAY_TOKEN_SECRET_NAME, <<"t", "1">>)

ProvisionedObs(u) ==
    [dirs |-> UserSubdirs \cup {"secrets"},
     files |-> IF UserCfg(u).workspace_template
               THEN copy_template(TemplateFiles, EmptyFn).dest ELSE EmptyFn,
     secrets |-> ProvisionedSecrets(u),
     config |-> write_openclaw_config(u, DefaultModel, Some(<<"t", "1">>), NoneV),
     container |-> "running"]

\* The deployments a behaviour starts from: the users in `pre` were added
\* (provisioned) before, the others are only declared in the configuration
\* and have the secrets directory prior[u].
InitProvOver(pre, prior) ==
    /\ dirs = [u \in Users |->
                  IF u \in pre THEN ProvisionedObs(u).dirs
                  ELSE IF prior[u] # EmptyFn THEN {"secrets"} ELSE {}]
    /\ files = [u \in Users |-> IF u \in pre THEN ProvisionedObs(u).files ELSE EmptyFn]
    /\ secretFiles = [u \in Users |->
                         IF u \in pre THEN ProvisionedObs(u).secrets ELSE prior[u]]
    /\ configFile = [u \in Users |->
                        IF u \in pre THEN ProvisionedObs(u).config ELSE <<>>]
    /\ container = [u \in Users |-> IF u \in pre THEN "running" ELSE "absent"]
    /\ network = [u \in Users |-> u \in pre]
    /\ image = (pre # {})
    /\ cfgModel = [u \in Users |-> DefaultModel]
    /\ call = NoCall
    /\ pc = 0
    /\ gwLocal = NoneV
    /\ copied = {}
    /\ trace = <<>>
    /\ done = NoDone
    /\ doneObs = NoObs
    /\ ncalls = 0

\* No secrets directory exists for a user who was not added.
InitProvWith(pre) == InitProvOver(pre, [u \in Users |-> EmptyFn])

InitProv == \E pre \in SUBSET Users : InitProvWith(pre)

\* The components a specification does not follow stay idle.
InitExt == IdleRp /\ IdleRq /\ InitSs /\ InitBk /\ IdleSy /\ IdleGc /\ IdleDk /\ IdleUn /\ IdleWb /\ IdleCc /\ IdleSd /\ IdleTr /\ IdleRb /\ IdleMd

Init == InitProv /\ InitDaemon /\ InitExt

Next ==
    \/ \E u \in Users : \E sv \in SecretInputs(u) : BeginProvision(u, sv)
    \/ StepDirs
    \/ StepTemplate
    \/ StepSecrets
    \/ StepEnsureToken
    \/ StepConfig
    \/ StepImage
    \/ StepCreate
    \/ StepStart
    \/ \E u \in Users : \E keep_data \in BOOLEAN : BeginRemove(u, keep_data)
    \/ StepRmContainer
    \/ StepRmNetwork
    \/ StepRmData
    \/ StepRmSecrets
    \/ \E u \in Users : BeginRegenerate(u)
    \/ StepRegenToken
    \/ \E u \in Users : \E t \in SlackTokenInputs : BeginSetSlack(u, t.bot, t.app)
    \/ StepSlackSecrets
    \/ StepRestart
    \/ \E u \in Users : \E m \in ModelInputs : \E pr \in ProviderInputs :
          BeginModelUpdate(u, m, pr)
    \/ StepMuValidate
    \/ StepMuToml
    \/ StepMuWrite
    \/ Fail
    \/ \E u \in Users : \E p \in EditedPaths : UserEdit(u, p)

Spec == Init /\ [][Next]_vars

\* A deployment in which no user has been provisioned yet.
NewDeploymentInit == InitProvWith({}) /\ InitDaemon /\ InitExt

\* The Slack bot and app token values alone, as supplied for alice.
SlackSecretInputs ==
    <<[name |-> "slack_bot_token", value |-> <<"b">>],
      [name |-> "slack_app_token", value |-> <<"a">>]>>

NewDeploymentNext ==
    \/ BeginProvision("alice", SlackSecretInputs)
    \/ Next

NewDeploymentSpec == NewDeploymentInit /\ [][NewDeploymentNext]_vars

\* ---------------------------------------------------------------------------
\* Specification of provisioning over an existing secrets directory
\* ---------------------------------------------------------------------------

\* Content of a gateway-token file found in secrets/<u> before the first
\* provision: empty, whitespace only, a token, a token and a line break.
PriorTokenFiles == {<<>>, <<" ">>, <<"t", "0">>, <<"t", "0", "\n">>}

PriorSecretDirs ==
    {EmptyFn} \cup {write_secret(EmptyFn, GATEWAY_TOKEN_SECRET_NAME, v) :
                        v \in PriorTokenFiles}

ExistingSecretsInit ==
    /\ \E prior \in [Users -> PriorSecretDirs] : InitProvOver({}, prior)
    /\ InitDaemon
    /\ InitExt

ExistingSecretsNext ==
    \/ \E u \in Users : \E sv \in SecretInputs(u) : BeginProvision(u, sv)
    \/ StepDirs
    \/ StepTemplate
    \/ StepSecrets
    \/ StepEnsureToken
    \/ StepConfig
    \/ StepImage
    \/ StepCreate
    \/ StepStart
    \/ Fail

ExistingSecretsSpec == ExistingSecretsInit /\ [][ExistingSecretsNext]_vars

\* ---------------------------------------------------------------------------
\* Specification of the daemon lifecycle helper
\* ---------------------------------------------------------------------------

DaemonInit == InitProvWith({}) /\ InitDaemon /\ InitExt

DaemonNext ==
    \/ \E c \in OSUsers : IsDaemonRunning(c)
    \/ \E c \in OSUsers : StartDaemon(c)
    \/ \E c \in OSUsers : StopDaemon(c)
    \/ \E p \in Pids : ProcExit(p)

DaemonSpec == DaemonInit /\ [][DaemonNext]_vars

\* ---------------------------------------------------------------------------
\* Specification of the daemon process (run_periodic)
\* ---------------------------------------------------------------------------

PeriodicInit == InitProvWith({}) /\ InitDaemon /\ InitRp /\ IdleRq /\ InitSs /\ InitBk /\ IdleSy /\ IdleGc /\ IdleDk /\ IdleUn /\ IdleWb /\ IdleCc /\ IdleSd /\ IdleTr /\ IdleRb /\ IdleMd

PeriodicNext ==
    \/ RpEntry
    \/ RpFirstSync
    \/ RpPassEnd
    \/ RpSchedule
    \/ RpCheck
    \/ RpRunPending
    \/ RpSleep
    \/ \E sig \in {"SIGTERM", "SIGINT"} : RpSignal(sig)
    \/ RpTick

\* The interpreter keeps executing the process: every statement, pass and
\* sleep of run_periodic ends.
PeriodicSpec == PeriodicInit /\ [][PeriodicNext]_vars /\ WF_vars(RpProgram)

\* ---------------------------------------------------------------------------
\* Specification of get_required_secrets
\* ---------------------------------------------------------------------------

RequiredInit == InitProvWith({}) /\ InitDaemon /\ IdleRp /\ InitRq /\ InitSs /\ InitBk /\ IdleSy /\ IdleGc /\ IdleDk /\ IdleUn /\ IdleWb /\ IdleCc /\ IdleSd /\ IdleTr /\ IdleRb /\ IdleMd

RequiredNext == GetRequiredSecrets

RequiredSpec == RequiredInit /\ [][RequiredNext]_vars

\* ---------------------------------------------------------------------------
\* Specification of the secrets directory
\* ---------------------------------------------------------------------------

SecretsInit == InitProvWith({}) /\ InitDaemon /\ InitExt

SecretsNext ==
    \/ \E n \in SecretNames : \E v \in SecretValues : WriteSecret(n, v)
    \/ \E n \in SecretNames : ReadSecret(n)
    \/ RemoveUserSecrets

SecretsSpec == SecretsInit /\ [][SecretsNext]_vars

\* ---------------------------------------------------------------------------
\* Specification of the backup of one user
\* ---------------------------------------------------------------------------

BackupInit == InitProvWith({}) /\ InitDaemon /\ InitExt

BackupNext ==
    \/ InitUserBackup
    \/ BackupUser
    \/ \E p \in BackupPaths : \E c \in FileContents : WriteFile(p, c)

BackupSpec == BackupInit /\ [][BackupNext]_vars

\* ---------------------------------------------------------------------------
\* Specification of shared-collection sync and the batch operations
\* ---------------------------------------------------------------------------

SyncInit ==
    InitProvWith({}) /\ InitDaemon /\ IdleRp /\ IdleRq /\ InitSs /\ InitBk /\ InitSy /\ IdleGc /\ IdleDk /\ IdleUn /\ IdleWb /\ IdleCc /\ IdleSd /\ IdleTr /\ IdleRb /\ IdleMd

SyncNext ==
    \/ ValidateConfig
    \/ \E name \in CollectionNames : \E env \in SyncOutcomes : SyncCollection(name, env)
    \/ BatchBegin
    \/ \E env \in SyncOutcomes : SyncAllItem(env)
    \/ \E env \in BackupOutcomes : BackupAllItem(env)
    \/ BatchReturn

SyncSpec == SyncInit /\ [][SyncNext]_vars

\* ---------------------------------------------------------------------------
\* Specification of the runtime config generator
\* ---------------------------------------------------------------------------

GeneratorInit == InitProvWith({}) /\ InitDaemon /\ IdleRp /\ IdleRq /\ InitSs /\ InitBk /\ IdleSy /\ InitGc /\ IdleDk /\ IdleUn /\ IdleWb /\ IdleCc /\ IdleSd /\ IdleTr /\ IdleRb /\ IdleMd

GeneratorNext ==
    \/ GenerateConfig
    \/ WriteConfig
    \/ \E v \in ChannelSecretValues : SecretsChange(v)

GeneratorSpec == GeneratorInit /\ [][GeneratorNext]_vars

\* ---------------------------------------------------------------------------
\* Specification of the container engine operations
\* ---------------------------------------------------------------------------

DockerInit == InitProvWith({}) /\ InitDaemon /\ InitExt

DockerNext ==
    \/ \E op \in DockerOps : DockerCall(op)
    \/ EngineRestartLoop
    \/ ExecGet
    \/ ExecCheck
    \/ \E exit_code \in {0, 1} : ExecRun(exit_code)

DockerSpec == DockerInit /\ [][DockerNext]_vars

\* ---------------------------------------------------------------------------
\* Specification of user name validation
\* ---------------------------------------------------------------------------

NameInit == InitProvWith({}) /\ InitDaemon /\ IdleRp /\ IdleRq /\ InitSs /\ InitBk /\ IdleSy /\ IdleGc /\ IdleDk /\ InitUn /\ IdleWb /\ IdleCc /\ IdleSd /\ IdleTr /\ IdleRb /\ IdleMd

NameNext == ValidateName

NameSpec == NameInit /\ [][NameNext]_vars

\* ---------------------------------------------------------------------------
\* Specification of the web model-update endpoint
\* ---------------------------------------------------------------------------

WebInit == InitProvWith({}) /\ InitDaemon /\ IdleRp /\ IdleRq /\ InitSs /\ InitBk /\ IdleSy /\ IdleGc /\ IdleDk /\ IdleUn /\ InitWb /\ IdleCc /\ IdleSd /\ IdleTr /\ IdleRb /\ IdleMd

WebNext ==
    \/ WebFindConfig
    \/ WebGetUser
    \/ WebValidate
    \/ WebApply

WebSpec == WebInit /\ [][WebNext]_vars

\* ---------------------------------------------------------------------------
\* Specification of two concurrent UserManager calls
\* ---------------------------------------------------------------------------

\* The user was provisioned before the two calls start, or never.
CcInitWith(ops, provisioned) ==
    cc = [dirs |-> IF provisioned THEN ProvisionedObs(ConcurrentUser).dirs ELSE {},
          secrets |-> IF provisioned THEN ProvisionedObs(ConcurrentUser).secrets
                      ELSE EmptyFn,
          config |-> IF provisioned THEN ProvisionedObs(ConcurrentUser).config
                     ELSE <<>>,
          container |-> IF provisioned THEN "running" ELSE "absent",
          network |-> provisioned,
          image |-> provisioned,
          fresh |-> ~provisioned,
          calls |-> [i \in CallerIds |-> NewCaller(ops[i])]]

InitCc == \E ops \in CallPairs : \E provisioned \in BOOLEAN : CcInitWith(ops, provisioned)

ConcurrentInit == InitProvWith({}) /\ InitDaemon /\ IdleRp /\ IdleRq /\ InitSs /\ InitBk /\ IdleSy /\ IdleGc /\ IdleDk /\ IdleUn /\ IdleWb /\ InitCc /\ IdleSd /\ IdleTr /\ IdleRb /\ IdleMd

ConcurrentNext ==
    \/ \E i \in CallerIds : ProvisionStep(i)
    \/ \E i \in CallerIds : RemoveStep(i)

ConcurrentSpec == ConcurrentInit /\ [][ConcurrentNext]_vars

\* ---------------------------------------------------------------------------
\* Specification of two concurrent daemon starts
\* ---------------------------------------------------------------------------

StartRaceInit == InitProvWith({}) /\ InitDaemon /\ IdleRp /\ IdleRq /\ InitSs /\ InitBk /\ IdleSy /\ IdleGc /\ IdleDk /\ IdleUn /\ IdleWb /\ IdleCc /\ InitSd /\ IdleTr /\ IdleRb /\ IdleMd

StartRaceNext ==
    \/ \E i \in CallerIds : StartDaemonStep(i)
    \/ StopSpawned
    \/ \E p \in SpawnPids : SpawnedExit(p)

StartRaceSpec == StartRaceInit /\ [][StartRaceNext]_vars

\* ---------------------------------------------------------------------------
\* Specification of the synced directory trees
\* ---------------------------------------------------------------------------

TreeInit == InitProvWith({}) /\ InitDaemon /\ IdleRp /\ IdleRq /\ InitSs /\ InitBk /\ IdleSy /\ IdleGc /\ IdleDk /\ IdleUn /\ IdleWb /\ IdleCc /\ IdleSd /\ InitTr /\ IdleRb /\ IdleMd

TreeNext ==
    \/ SyncTree
    \/ \E src \in SourceTrees \cup {EmptyFn} : SourceChange(src)

TreeSpec == TreeInit /\ [][TreeNext]_vars

\* ---------------------------------------------------------------------------
\* Specification of rebuild_all
\* ---------------------------------------------------------------------------

RebuildInit == InitProvWith({}) /\ InitDaemon /\ IdleRp /\ IdleRq /\ InitSs /\ InitBk /\ IdleSy /\ IdleGc /\ IdleDk /\ IdleUn /\ IdleWb /\ IdleCc /\ IdleSd /\ IdleTr /\ InitRb /\ IdleMd

RebuildNext == \E ok \in BOOLEAN : RebuildAllStep(ok)

RebuildSpec == RebuildInit /\ [][RebuildNext]_vars

\* ---------------------------------------------------------------------------
\* Specification of the model defaults
\* ---------------------------------------------------------------------------

DefaultsInit == InitProvWith({}) /\ InitDaemon /\ IdleRp /\ IdleRq /\ InitSs /\ InitBk /\ IdleSy /\ IdleGc /\ IdleDk /\ IdleUn /\ IdleWb /\ IdleCc /\ IdleSd /\ IdleTr /\ IdleRb /\ InitMd

DefaultsNext ==
    \/ LoadModels
    \/ GeneratePrimary

DefaultsSpec == DefaultsInit /\ [][DefaultsNext]_vars

\* ---------------------------------------------------------------------------
\* Properties of the provisioning core (checked under Spec)
\* ---------------------------------------------------------------------------

\* C1: provision called twice in succession with the same inputs and no
\* injected failure completes both times without error, and the observable
\* state after the second call equals the state after the first.
C1_ProvisionIdempotent ==
    (done.op = "provision" /\ done.prev = "same_ok" /\ ~done.injected)
        => (done.status = "ok" /\ done.same)

\* C2: when provision aborted at a step because of a failure and is called
\* again with the same inputs and no further failure, the second call
\* completes without error and the user's container is running.
C2_ProvisionRetryCompletes ==
    (done.op = "provision" /\ done.prev = "same_injected" /\ ~done.injected)
        => (done.status = "ok" /\ doneObs.container = "running")

\* C3: a step of provision, config regenerate, set-slack or the web model
\* update never changes the stored value of a gateway token that is already
\* persisted, for any user; a token is written only when none is stored.
C3_GatewayTokenStable ==
    [][(pc > 0 /\ call.op \in {"provision", "regenerate", "set_slack", "model_update"})
         => \A u \in Users :
              secret_exists(secretFiles[u], GATEWAY_TOKEN_SECRET_NAME)
                 => /\ secret_exists(secretFiles'[u], GATEWAY_TOKEN_SECRET_NAME)
                    /\ secretFiles'[u][GATEWAY_TOKEN_SECRET_NAME]
                          = secretFiles[u][GATEWAY_TOKEN_SECRET_NAME]]_vars

\* A config regenerate ran twice for a user and the second run, which found
\* the token persisted by the first, completed and left the state unchanged.
C3_Witness ==
    /\ done.op = "regenerate"
    /\ done.prev = "same_ok"
    /\ done.status = "ok"
    /\ done.same
    /\ secret_exists(doneObs.secrets, GATEWAY_TOKEN_SECRET_NAME)

\* C4: the template step of provision leaves every file that already exists
\* in the destination unchanged and does not list it as copied; every
\* template file absent from the destination is copied and listed.
C4_TemplateKeepsExisting ==
    [][(Cur = "template" /\ UserCfg(call.user).workspace_template
          /\ trace' = Append(trace, "template"))
         => /\ \A p \in DOMAIN files[call.user] :
                  /\ p \in DOMAIN files'[call.user]
                  /\ files'[call.user][p] = files[call.user][p]
                  /\ p \notin copied'
            /\ \A p \in DOMAIN TemplateFiles \ DOMAIN files[call.user] :
                  /\ p \in DOMAIN files'[call.user]
                  /\ files'[call.user][p] = TemplateFiles[p]
                  /\ p \in copied']_vars

\* A re-provision met a file the user had edited next to a missing template
\* file: the edit is kept, only the missing file was copied.
C4_Witness ==
    /\ call.op = "provision"
    /\ call.user = "alice"
    /\ Cur = "secrets"
    /\ "IDENTITY.md" \in DOMAIN files["alice"]
    /\ files["alice"]["IDENTITY.md"] = "user version"
    /\ copied = {"new.md"}
    /\ files["alice"]["new.md"] = "new content"

\* C5: the steps of provision take effect in the order directories, template,
\* supplied secrets, gateway token, runtime config, image, container create,
\* container start; when the container is created or started, every supplied
\* secret, the gateway token and the runtime config holding it are on disk.
C5_ProvisionOrder ==
    LET Expected == <<"dirs", "template", "secrets", "ensure_token", "config",
                      "image", "create", "start">>
        u == call.user
        created == \E i \in 1..Len(trace) : trace[i] \in {"create", "start"}
    IN /\ (pc > 0 /\ call.op = "provision")
            => /\ Len(trace) <= Len(Expected)
               /\ trace = SubSeq(Expected, 1, Len(trace))
               /\ created
                    => /\ \A k \in 1..Len(call.sv) :
                             /\ call.sv[k].name \in DOMAIN secretFiles[u]
                             /\ secretFiles[u][call.sv[k].name] = call.sv[k].value
                       /\ secret_exists(secretFiles[u], GATEWAY_TOKEN_SECRET_NAME)
                       /\ configFile[u] # <<>>
                       /\ configFile[u][1].doc.auth =
                             read_secret(secretFiles[u], GATEWAY_TOKEN_SECRET_NAME)
       /\ (pc = 0 /\ done.op = "provision" /\ done.status = "ok")
            => trace = Expected

\* A first provision with supplied secrets has created the container and is
\* about to start it.
C5_Witness ==
    /\ call.op = "provision"
    /\ call.sv # <<>>
    /\ Cur = "start"
    /\ container[call.user] = "created"
    /\ trace[Len(trace)] = "create"

\* C6: every step of a remove call that deletes anything of the user's data
\* directory or secrets is taken when the user's container and network are
\* already gone, so a remove that fails midway never leaves the container
\* with its data or secrets deleted.
C6_RuntimeTeardownFirst ==
    [][(pc > 0 /\ call.op = "remove"
          /\ \/ dirs'[call.user] # dirs[call.user]
             \/ files'[call.user] # files[call.user]
             \/ configFile'[call.user] # configFile[call.user]
             \/ secretFiles'[call.user] # secretFiles[call.user])
         => (container[call.user] = "absent" /\ ~network[call.user])]_vars

\* A remove without keep_data of a user that was just provisioned has taken
\* the container and the network away and is about to delete the data.
C6_Witness ==
    /\ call.op = "remove"
    /\ ~call.keep
    /\ Cur = "rm_data"
    /\ done.op = "provision" /\ done.status = "ok" /\ done.user = call.user
    /\ container[call.user] = "absent"
    /\ ~network[call.user]
    /\ dirs[call.user] = UserSubdirs \cup {"secrets"}
    /\ configFile[call.user] # <<>>

\* C7: a remove call with keep_data leaves the user's directory tree and
\* secret files unchanged; a remove call that returns without keep_data
\* leaves neither the tree nor any secret of the user; no step of a remove
\* call changes another user's container, network, data or secrets.
C7_RemoveFrame ==
    [][(pc > 0 /\ call.op = "remove")
         => /\ \A v \in Users \ {call.user} :
                  /\ ObsNext(v) = Obs(v)
                  /\ network'[v] = network[v]
            /\ call.keep
                 => /\ dirs'[call.user] = dirs[call.user]
                    /\ files'[call.user] = files[call.user]
                    /\ configFile'[call.user] = configFile[call.user]
                    /\ secretFiles'[call.user] = secretFiles[call.user]
            /\ (~call.keep /\ pc' = 0 /\ done'.status = "ok")
                 => /\ dirs'[call.user] = {}
                    /\ files'[call.user] = EmptyFn
                    /\ configFile'[call.user] = <<>>
                    /\ secretFiles'[call.user] = EmptyFn]_vars

\* A remove with keep_data returned for a provisioned user while another
\* user's instance was running: container gone, data and secrets in place.
C7_Witness ==
    /\ pc = 0
    /\ done.op = "remove" /\ done.keep /\ done.status = "ok"
    /\ doneObs.container = "absent"
    /\ doneObs.dirs = UserSubdirs \cup {"secrets"}
    /\ doneObs.secrets # EmptyFn
    /\ doneObs.config # <<>>
    /\ \E v \in Users \ {done.user} : Obs(v) = ProvisionedObs(v) /\ network[v]

\* C8: a remove call that meets no injected failure completes without error
\* whatever of the container, network, data and secrets is already absent,
\* and a second remove with the same arguments leaves the state of the first.
C8_RemoveIdempotent ==
    /\ (done.op = "remove" /\ ~done.injected) => done.status = "ok"
    /\ (done.op = "remove" /\ done.prev = "same_ok" /\ done.status = "ok")
         => done.same

\* remove without keep_data ran twice: the second call found nothing left.
C8_Witness ==
    /\ done.op = "remove" /\ ~done.keep
    /\ done.prev = "same_ok"
    /\ done.status = "ok"
    /\ done.same
    /\ doneObs = NoObs
    /\ ~network[done.user]

\* ---------------------------------------------------------------------------
\* Properties of the daemon lifecycle helper (checked under DaemonSpec)
\* ---------------------------------------------------------------------------

\* C9: is_daemon_running called with a PID file that names a process that
\* does not exist returns false without error and leaves no PID file;
\* called with no PID file it returns false, so do all subsequent calls.
C9_StalePidCleaned ==
    (dLast.op = "is_running" /\ ~dLast.existed)
        => (~dLast.ret /\ dLast.raised = "none" /\ pidFile = <<>>)

\* A call found the PID file of a daemon that had exited and removed it.
C9_Witness ==
    /\ dLast.op = "is_running"
    /\ dLast.hadFile
    /\ ~dLast.existed
    /\ ~dLast.ret
    /\ pidFile = <<>>

\* C10: is_daemon_running called with a PID file that names an existing
\* process returns true and leaves the PID file in place, whichever OS user
\* owns the process.
C10_LiveProcessReported ==
    (dLast.op = "is_running" /\ dLast.existed)
        => (dLast.ret /\ pidFile = <<dLast.pid>>)

\* C11: start_daemon called while the PID file names an existing process
\* raises, spawns nothing and leaves the PID file as it was; called while the
\* daemon is not running it spawns a process and records exactly its pid.
C11_StartDaemonGuard ==
    /\ (dLast.op = "start" /\ dLast.existed)
         => /\ dLast.raised = "RuntimeError"
            /\ ~dLast.ret
            /\ pidFile = <<dLast.pid>>
    /\ (dLast.op = "start" /\ ~dLast.existed)
         => /\ dLast.ret
            /\ dLast.raised = "none"
            /\ pidFile # <<>>

\* C12: stop_daemon returns true exactly when the process named by the PID
\* file existed at the call, never raises, and leaves no PID file whenever
\* there was one.
C12_StopDaemonResult ==
    dLast.op = "stop"
        => /\ dLast.ret = dLast.existed
           /\ dLast.raised = "none"
           /\ dLast.hadFile => pidFile = <<>>

\* ---------------------------------------------------------------------------
\* Properties of run_periodic (checked under PeriodicSpec)
\* ---------------------------------------------------------------------------

\* C13: run_periodic runs one pass on start and further passes only when the
\* job is due; a delivered SIGTERM or SIGINT only clears the running flag and
\* leaves a pass in progress alone; after it at most one pass and then at
\* most one sleep begin, and the loop always eventually exits.
C13_PeriodicShutdown ==
    /\ [](/\ rp.pc \in {"schedule", "check", "pending", "pass", "sleep"}
               => rp.passes >= 1
          /\ rp.sleepsAfter <= 1
          /\ rp.passesAfter <= 1
          /\ (rp.pc \in {"first_pass", "pass"} /\ rp.signalled)
               => rp.sleepsAfter = 0)
    /\ [][/\ (rp.handlers /\ ~rp.signalled /\ rp'.signalled)
               => /\ rp'.pc = rp.pc
                  /\ rp'.passes = rp.passes
                  /\ ~rp'.running
          /\ (rp.pc = "pending" /\ rp'.pc = "pass") => rp.due]_vars
    /\ (rp.signalled ~> rp.pc \in {"exited", "killed"})

\* A signal was delivered during a scheduled pass; the pass ended, one sleep
\* followed and run_periodic returned.
C13_Witness ==
    /\ rp.pc = "exited"
    /\ rp.signalled
    /\ rp.passes = 2
    /\ rp.passesAfter = 0
    /\ rp.sleepsAfter = 1

\* ---------------------------------------------------------------------------
\* Properties of get_required_secrets (checked under RequiredSpec)
\* ---------------------------------------------------------------------------

\* Enablement of a skill as the configuration files state it: the user's
\* own setting when the file has one, else the defaults' setting when
\* defaults are supplied, else the built-in default.
StatedEnabled(sk) ==
    IF rq.rawUser[sk] # "unset" THEN rq.rawUser[sk] = "on"
    ELSE IF rq.defaultsGiven THEN parse_skill(rq.rawDefaults[sk])
    ELSE parse_skill("unset")

ExplicitScan == [i \in 1..Len(rq.extras) |-> rq.extras[i].filename]

SkillScan ==
    (IF StatedEnabled("gog") THEN SKILL_REQUIRED_SECRETS["gog"] ELSE <<>>)
    \o (IF StatedEnabled("gemini") THEN SKILL_REQUIRED_SECRETS["gemini"] ELSE <<>>)
    \o (IF StatedEnabled("coding_agent") THEN SKILL_REQUIRED_SECRETS["coding_agent"] ELSE <<>>)

ChannelScan ==
    (IF rq.slack.enabled /\ rq.slack.bot.some THEN <<rq.slack.bot.name>> ELSE <<>>)
    \o (IF rq.slack.enabled /\ rq.slack.app.some THEN <<rq.slack.app.name>> ELSE <<>>)
    \o (IF rq.discord.enabled /\ rq.discord.token.some
        THEN <<rq.discord.token.name>> ELSE <<>>)

RequiredScan == ExplicitScan \o SkillScan \o ChannelScan

FirstIndex(seq, x) == CHOOSE i \in 1..Len(seq) : seq[i] = x /\ \A j \in 1..(i - 1) : seq[j] # x

\* C14: the result is the union of the explicit filenames, the secrets of
\* each enabled skill and the names of each enabled channel, every name
\* once, in first-appearance order of that scan; explicit openrouter_api_key
\* with gog and Slack enabled (Discord off) gives exactly 6 names.
C14_RequiredUnion ==
    rq.pc = "done" =>
        LET names == Names(rq.out)
        IN /\ Range(names) = Range(RequiredScan)
           /\ \A i, j \in 1..Len(names) : i # j => names[i] # names[j]
           /\ \A i, j \in 1..Len(names) :
                (i < j /\ names[i] \in Range(RequiredScan) /\ names[j] \in Range(RequiredScan))
                    => FirstIndex(RequiredScan, names[i]) < FirstIndex(RequiredScan, names[j])
           /\ (/\ Range(ExplicitScan) = {"openrouter_api_key"}
               /\ StatedEnabled("gog")
               /\ rq.slack.enabled /\ rq.slack.bot.some /\ rq.slack.app.some
               /\ ~rq.discord.enabled)
                => Len(names) = 6

\* C15: with defaults supplied, a skill whose stated enablement (user's
\* setting, else the defaults') is off contributes none of its secrets, and
\* one whose stated enablement is on contributes all of them.
C15_SkillFallback ==
    (rq.pc = "done" /\ rq.defaultsGiven) =>
        \A k \in 1..Len(SkillNames) :
            LET sk == SkillNames[k]
                implied == Range(SKILL_REQUIRED_SECRETS[sk])
                           \ (Range(ExplicitScan) \cup Range(ChannelScan))
            IN IF StatedEnabled(sk)
               THEN implied \subseteq Range(Names(rq.out))
               ELSE implied \cap Range(Names(rq.out)) = {}

\* ---------------------------------------------------------------------------
\* Properties of a first provision (checked under NewDeploymentSpec)
\* ---------------------------------------------------------------------------

SuppliedNames(sv) == {sv[i].name : i \in 1..Len(sv)}

\* list_secrets(username)
list_secrets(u) == IF "secrets" \in dirs[u] THEN DOMAIN secretFiles[u] ELSE {}

\* The first operation of a new deployment was a provision that returned.
FirstProvisionDone ==
    ncalls = 1 /\ pc = 0 /\ done.op = "provision" /\ done.status = "ok"

\* C16: after a successful provision of a user that was not provisioned
\* before, the secrets directory lists exactly the supplied names and
\* openclaw_gateway_token (3 files for alice supplied with the two Slack
\* tokens), and alice's written runtime config has Slack enabled.
C16_FirstProvisionSecrets ==
    FirstProvisionDone =>
        /\ list_secrets(done.user) = SuppliedNames(done.sv) \cup {GATEWAY_TOKEN_SECRET_NAME}
        /\ SuppliedNames(done.sv) = {"slack_bot_token", "slack_app_token"}
             => Cardinality(list_secrets(done.user)) = 3
        /\ done.user = "alice"
             => /\ Len(configFile["alice"]) = 1
                /\ configFile["alice"][1].doc.slack = TRUE

C16_Witness ==
    /\ FirstProvisionDone
    /\ done.user = "alice"
    /\ SuppliedNames(done.sv) = {"slack_bot_token", "slack_app_token"}
    /\ Cardinality(list_secrets("alice")) = 3

\* ---------------------------------------------------------------------------
\* Properties of the secrets directory (checked under SecretsSpec)
\* ---------------------------------------------------------------------------

\* C17: a read returns absent exactly when the secret does not exist, and
\* for an existing secret returns the written value trimmed of surrounding
\* whitespace, the empty and whitespace-only values included.
C17_ReadAbsentIffMissing ==
    ss.last.op = "read" =>
        /\ (ss.last.result = NoneV) <=> ~ss.last.existed
        /\ ss.last.existed => ss.last.result = Some(Strip(ss.last.stored))

\* ---------------------------------------------------------------------------
\* Properties of the backup of one user (checked under BackupSpec)
\* ---------------------------------------------------------------------------

\* C18: backup_user returns true and adds exactly one snapshot when the
\* included files differ from the last snapshot, returns false and adds
\* none when they do not; with no edit since the previous backup or since
\* an initialization it returns false, after an edit of an included file
\* to new content it returns true; init_user_backup on an initialized
\* repository changes nothing.
C18_BackupOnChange ==
    /\ bk.last.op = "backup" =>
         /\ bk.last.ret <=> bk.last.differed
         /\ bk.last.added = (IF bk.last.differed THEN 1 ELSE 0)
         /\ (bk.last.wasInit /\ ~bk.last.edited) => ~bk.last.ret
    /\ (bk.last.op = "backup" /\ ~bk.edited) => Included(bk.workspace) = bk.head
    /\ (bk.last.op = "init" /\ bk.last.wasInit) => bk.last.repoSame
    /\ bk.init => bk.snapshots >= 1

C18_Witness ==
    /\ bk.last.op = "backup" /\ ~bk.last.ret /\ bk.last.wasInit /\ ~bk.last.edited
    /\ bk.snapshots = 3 /\ bk.head # EmptyFn

\* ---------------------------------------------------------------------------
\* Properties of sync and the batch operations (checked under SyncSpec)
\* ---------------------------------------------------------------------------

\* The last position of an item in the configured list.
LastIndexOf(name) == CHOOSE i \in 1..Len(sy.raw) : sy.raw[i] = name /\ \A j \in (i + 1)..Len(sy.raw) : sy.raw[j] # name

ItemSucceeded(i) ==
    IF sy.kind = "backup" THEN sy.outcomes[i] = "changed"
    ELSE /\ sy.outcomes[i] = "ok" /\ sy.configured
         /\ Head(sy.raw[i]) # "/" /\ ~HasDoubleSlash(sy.raw[i])
         /\ \A k \in 1..Len(sy.raw[i]) : sy.raw[i][k] # ".."

\* C19: sync_all and backup_all return without raising, having processed
\* every configured item, with exactly one entry per item: true when the
\* item's (last) run succeeded, false when it failed or raised.
C19_BatchIsolatesFailures ==
    sy.last.op = "batch_done" =>
        /\ sy.last.raised = "none"
        /\ Len(sy.outcomes) = Len(sy.raw)
        /\ DOMAIN sy.results = {sy.raw[i] : i \in 1..Len(sy.raw)}
        /\ \A n \in DOMAIN sy.results : sy.results[n] = ItemSucceeded(LastIndexOf(n))

C19_Witness ==
    /\ sy.last.op = "batch_done" /\ sy.kind = "sync"
    /\ sy.raw = <<<<"a">>, <<"a", "/", "b">>>>
    /\ sy.outcomes = <<"mkdir_error", "ok">>
    /\ sy.results[<<"a">>] = FALSE /\ sy.results[<<"a", "/", "b">>] = TRUE

NamesEscape(name) == name = <<"..", "/", "escape">> \/ HasDoubleSlash(name)

\* C20: a configuration listing "../escape" or a name containing "//" is
\* rejected at load, and sync_collection of such a name returns false;
\* either way before any directory is created, any file copied or removed,
\* any subprocess started.
C20_TraversalRejected ==
    /\ (sy.pc # "load" /\ \E i \in 1..Len(sy.raw) : sy.kind = "sync" /\ NamesEscape(sy.raw[i]))
         => sy.pc = "rejected" /\ sy.ops = {}
    /\ (sy.last.op = "sync_collection" /\ NamesEscape(sy.last.name))
         => ~sy.last.ret /\ sy.last.raised = "none" /\ sy.ops = {}

\* C21: every collection name the configuration validator accepts names a
\* directory inside the base it is joined to (<data_root>/shared for the
\* destination, local_source_base for a local source).
C21_AcceptedNamesStayInside ==
    (sy.kind = "sync" /\ sy.pc \in {"ready", "loop"})
        => \A i \in 1..Len(sy.raw) : joined_inside_base(sy.raw[i])

\* ---------------------------------------------------------------------------
\* Properties of the runtime config generator (checked under GeneratorSpec)
\* ---------------------------------------------------------------------------

EffectiveModel == IF gc.model # <<>> THEN gc.model ELSE DefaultModel

HasRoutingPrefix(m) == Len(m) >= 2 /\ m[1] = "openrouter"

\* C23: the primary model is the model itself when it starts with
\* "openrouter/", else "openrouter/" + model when the hint is "openrouter"
\* and the model contains "/", else the model itself; routing the result
\* again with the same hint changes nothing.
C23_ModelRouting ==
    \A k \in 1..Len(gc.docs) :
        LET m == EffectiveModel
            out == gc.docs[k].primary
        IN /\ HasRoutingPrefix(m) => out = m
           /\ (~HasRoutingPrefix(m) /\ gc.provider = Some(<<"openrouter">>) /\ Len(m) >= 2)
                => out = <<"openrouter">> \o m
           /\ (~HasRoutingPrefix(m) /\ ~(gc.provider = Some(<<"openrouter">>) /\ Len(m) >= 2))
                => out = m
           /\ RouteModel(out, gc.provider) = out

C23_Witness ==
    /\ gc.docs # <<>> /\ gc.model = <<"z-ai", "glm">>
    /\ gc.provider = Some(<<"openrouter">>)
    /\ gc.docs[1].primary = <<"openrouter", "z-ai", "glm">>

GogEmailSet == gc.user.gog_email.some /\ gc.user.gog_email.val # <<>>

\* C24: the document has hooks.gmail.account, equal to the gog email,
\* exactly when gog is enabled and its email is set (not None, not empty);
\* otherwise it has no hooks entry at all.
C24_GmailHook ==
    \A k \in 1..Len(gc.docs) :
        IF gc.user.gog_enabled /\ GogEmailSet
        THEN /\ DOMAIN gc.docs[k].hooks = {"gmail"}
             /\ gc.docs[k].hooks["gmail"] = [account |-> gc.user.gog_email.val]
        ELSE gc.docs[k].hooks = EmptyFn

C24_Witness ==
    /\ gc.docs # <<>> /\ gc.user.gog_enabled /\ GogEmailSet
    /\ "gmail" \in DOMAIN gc.docs[1].hooks

\* The string values a document carries.
DocStrings(d) ==
    {d.primary}
    \cup (IF "auth" \in DOMAIN d.gateway THEN {d.gateway.auth.token} ELSE {})
    \cup {d.hooks[h].account : h \in DOMAIN d.hooks}

\* C25: a channel has a stanza exactly when it is enabled, the stanza holds
\* the enabled flag (and Slack's fixed mode) only, no channel or skill
\* secret value is in the document, and runs that differ only in those
\* secret values give the same document.
C25_ChannelStanzas ==
    /\ \A k \in 1..Len(gc.docs) :
        LET d == gc.docs[k]
        IN /\ ("slack" \in DOMAIN d.channels) <=> gc.user.slack
           /\ ("discord" \in DOMAIN d.channels) <=> gc.user.discord
           /\ DOMAIN d.channels \subseteq {"slack", "discord"}
           /\ gc.user.slack => d.channels["slack"] = [enabled |-> TRUE, mode |-> "socket"]
           /\ gc.user.discord => d.channels["discord"] = [enabled |-> TRUE]
           /\ gc.stores[k] \notin DocStrings(d)
           /\ DocStrings(d) \cap ChannelSecretValues = {}
    /\ \A i, j \in 1..Len(gc.docs) :
          gc.stores[i] # gc.stores[j] => gc.docs[i] = gc.docs[j]

C25_Witness ==
    /\ Len(gc.docs) = 2 /\ gc.stores[1] # gc.stores[2]
    /\ gc.user.slack /\ ~gc.user.discord
    /\ DOMAIN gc.docs[2].channels = {"slack"}

\* ---------------------------------------------------------------------------
\* Properties of the container engine operations (checked under DockerSpec)
\* ---------------------------------------------------------------------------

\* C26: start, stop, restart and remove of an absent container return
\* without raising and change nothing; create_network of an existing
\* network and remove_network of an absent one change nothing.
C26_AbsentContainerTolerated ==
    /\ (/\ dk.last.op \in {"start_container", "stop_container",
                           "restart_container", "remove_container"}
        /\ dk.last.container = "absent")
         => dk.last.raised = "none" /\ dk.last.same
    /\ (dk.last.op = "create_network" /\ dk.last.network)
         => dk.last.raised = "none" /\ dk.last.same
    /\ (dk.last.op = "remove_network" /\ ~dk.last.network)
         => dk.last.raised = "none" /\ dk.last.same

\* C27: exec into a container found restarting at the status check fails
\* with a non-zero code and the restarting outcome, without an exec; that
\* outcome differs from the absent and the stopped outcomes; a container
\* that enters the restart loop after the check gives the same restarting
\* outcome instead of an exception.
C27_ExecRestarting ==
    dk.ex.pc = "done" =>
        /\ dk.ex.seen = "restarting"
             => /\ dk.ex.code # 0 /\ dk.ex.kind = "restarting"
                /\ ~dk.ex.attempted /\ dk.ex.raised = "none"
        /\ (dk.ex.attempted /\ dk.ex.atExec = "restarting")
             => dk.ex.code # 0 /\ dk.ex.kind = "restarting" /\ dk.ex.raised = "none"
        /\ (dk.ex.kind = "restarting")
             <=> (dk.ex.seen = "restarting" \/ dk.ex.atExec = "restarting")
        /\ (dk.ex.seen = "absent" /\ dk.ex.raised = "none") => dk.ex.kind = "not_found"
        /\ dk.ex.seen \in {"created", "exited"} => dk.ex.kind = "not_running"

C27_Witness ==
    /\ dk.ex.pc = "done" /\ dk.ex.seen = "running" /\ dk.ex.attempted
    /\ dk.ex.atExec = "restarting" /\ dk.ex.kind = "restarting"

\* ---------------------------------------------------------------------------
\* Properties of user name validation (checked under NameSpec)
\* ---------------------------------------------------------------------------

\* C28: a name is accepted exactly when it has 1 to 32 characters, all of
\* them lowercase letters, digits or hyphens, and does not start with a
\* hyphen.
C28_UsernameAccepted ==
    un.pc = "validated" =>
        (un.accepted <=>
            /\ Len(un.name) >= 1 /\ Len(un.name) <= 32
            /\ \A i \in 1..Len(un.name) : un.name[i] \in {"a", "0", "-"}
            /\ un.name[1] # "-")

\* C29: the web model-update operation answers 503 when the configuration
\* file is missing, 404 when the user is not in the configuration or the
\* user's container does not exist, 400 for a missing API key, an unknown
\* model or an invalid configuration, and 500 only for unexpected errors.
C29_ErrorMapping ==
    wb.pc = "responded" =>
        /\ wb.at = "find_config" => wb.status = 503
        /\ wb.at \in {"get_user", "container"} => wb.status = 404
        /\ wb.at \in {"api_key", "model_cache"} => wb.status = 400
        /\ (\/ wb.at = "load_config"
            \/ wb.at = "writer" /\ wb.env.writer = "ValueError") => wb.status = 400
        /\ wb.status = 500 =>
               \/ wb.at \in {"reload", "exec", "restart"}
               \/ wb.at = "writer" /\ wb.env.writer = "OSError"

\* C30: after every successful provision the runtime config file enables
\* token authentication of the gateway with a token equal to the value
\* stored as the user's openclaw_gateway_token secret, whatever the secrets
\* directory held before (an empty or whitespace-only token file included).
C30_ProvisionEnablesTokenAuth ==
    (pc = 0 /\ done.op = "provision" /\ done.status = "ok") =>
        /\ Len(configFile[done.user]) = 1
        /\ Truthy(read_secret(secretFiles[done.user], GATEWAY_TOKEN_SECRET_NAME))
        /\ configFile[done.user][1].doc.auth =
               read_secret(secretFiles[done.user], GATEWAY_TOKEN_SECRET_NAME)

BothReturned == \A i \in CallerIds : cc.calls[i].pc \in {"returned", "raised"}

\* C31: two provision calls for the same user, interleaved statement by
\* statement and starting without a stored gateway token: once both have
\* written the runtime config, the token in the runtime config file equals
\* the stored gateway token secret.
C31_ConcurrentProvisionToken ==
    (/\ cc.fresh
     /\ \A i \in CallerIds : cc.calls[i].op = "provision" /\ cc.calls[i].wrote) =>
        /\ Len(cc.config) = 1
        /\ cc.config[1].doc.auth = read_secret(cc.secrets, GATEWAY_TOKEN_SECRET_NAME)

\* C32: provision and remove(keep_data=false) of the same user interleaved:
\* once both calls have returned, the container does not exist while the
\* user's directory tree or secrets directory is absent.
C32_NoContainerWithoutData ==
    (/\ \E i \in CallerIds : cc.calls[i].op = "remove"
     /\ BothReturned) =>
        ~(/\ cc.container # "absent"
          /\ \/ cc.dirs \cap UserSubdirs = {}
             \/ "secrets" \notin cc.dirs)

\* C33: two start_daemon calls interleaved, no daemon running initially: at
\* most one daemon process is spawned, and once no call is between spawning
\* and recording, every live spawned daemon has its PID in the PID file.
C33_SingleTrackedDaemon ==
    /\ Cardinality(sd.spawned) <= 1
    /\ (\A i \in CallerIds : sd.calls[i].pc \in {"returned", "raised", "exit"}) =>
           \A p \in sd.live : sd.pidFile = <<p>>

\* C34: when sync_collection returns false, the destination directory tree
\* is exactly as it was before the call.
C34_FailedSyncLeavesDestination ==
    (tr.last.op # "none" /\ ~tr.last.ret) => tr.dest = tr.last.before

HadContainer(u) == rb.before[u] # "absent"

\* C36: when rebuild_all raises, every configured user who had a container
\* before the call still has one; a failed image build leaves every
\* container untouched.
C36_RebuildFailureKeepsContainers ==
    rb.pc = "raised" =>
        /\ \A u \in DOMAIN rb.status : HadContainer(u) => rb.status[u] # "absent"
        /\ rb.at = "build" => rb.status = rb.before

\* C37: when rebuild_all returns, the users with a container are the same
\* as before, a container is running if it was running and not running if
\* it was stopped, and the returned list is exactly the users whose
\* container was recreated.
C37_RebuildPreservesContainers ==
    rb.pc = "returned" =>
        /\ \A u \in DOMAIN rb.status :
              /\ HadContainer(u) <=> rb.status[u] # "absent"
              /\ rb.before[u] = "running" => rb.status[u] = "running"
              /\ rb.before[u] = "exited" => rb.status[u] \notin {"running", "absent"}
              /\ HadContainer(u) <=> \E k \in 1..Len(rb.updated) : rb.updated[k] = u
        /\ Len(rb.updated) = Cardinality({u \in DOMAIN rb.status : HadContainer(u)})

C37_Witness ==
    /\ rb.pc = "returned"
    /\ rb.before = [u \in DOMAIN rb.status |-> IF u = "alice" THEN "exited" ELSE "running"]
    /\ rb.updated = ConfigUsers

\* C38: for a user record that sets no agent model the primary model of the
\* generated runtime config is the configured defaults.model (routed as any
\* model is), whatever defaults.model is; a model set in the user record is
\* used instead.
C38_DefaultsModelApplies ==
    md.pc = "generated" =>
        /\ ~md.user_field.some =>
              md.primary = RouteModel(md.defaults_model, md.provider)
        /\ (md.user_field.some /\ md.user_field.val # <<>>) =>
              md.primary = RouteModel(md.user_field.val, md.provider)

\* C39: an operation that rewrites the runtime config after a successful
\* web model update of the same user (provision, config regenerate,
\* set-slack: same user record, defaults and gateway token) writes the
\* document the model update wrote, agents.defaults.model.primary included.
C39_WritersAgree ==
    (/\ done.op = "model_update" /\ done.status = "ok"
     /\ pc > 0 /\ call.user = done.user
     /\ call.op \in {"provision", "regenerate", "set_slack"}
     /\ \E k \in 1..Len(trace) : trace[k] = "config") =>
        /\ Len(configFile[call.user]) = 1
        /\ configFile[call.user][1].doc = doneObs.config[1].doc

\* C40: when the web model update answers with an error status, the user's
\* model in clawctl.toml, the runtime config file and the container's
\* running state are as before the request; the configured model and the
\* model in the runtime config change together or not at all.
C40_FailedUpdateChangesNothing ==
    wb.pc = "responded" =>
        /\ wb.status # 200 => wb.changed = NoChange
        /\ wb.changed.toml <=> wb.changed.runtime

====
